---- MODULE Spec2Model ----
(***************************************************************************)
(* A model of hub-ci-status / github-ci-status: the retry engine           *)
(* (lib/retry-async.js), the status fetcher (lib/fetch-ci-status.js), and  *)
(* the state aggregator and orchestrator (index.js).                       *)
(*                                                                         *)
(* Times are abstract clock units (the code's milliseconds).               *)
(***************************************************************************)
EXTENDS Integers, Sequences, FiniteSets, TLC

VARIABLES
  \* ---- retryAsync (src/lib/retry-async.js) ----
  operation,     \* the first argument: "function", or "other" for anything else
  optionsArg,    \* the second argument: "object" | "undefined" | "null" | "primitive"
  options,       \* the destructured options: maxTotalMs, minWaitMs, waitMs, shouldRetry
  clock,         \* what now() returns
  pc,            \* "init" | "awaitOp" | "awaitSleep" | "resolved" | "rejected"
  deadline,      \* const deadline
  waitIterator,  \* the iterator made from waitMs, with its position
  waitResult,    \* let waitResult: the last value of waitIterator.next()
  settled,       \* the value retryAsync resolved with, or the error it rejected with
  opCalls,       \* number of invocations of operation
  opResults,     \* the values the invocations of operation resolved with, in order
  sleeps,        \* the delays passed to setTimeout, in order
  resolvedAt,    \* the time at which each invocation of operation resolved
  calledAt,      \* the time at which retryAsync was called
  nextCalls,     \* number of calls of waitIterator.next()
  returnCalls,   \* number of calls of waitIterator.return()
  shouldRetryCalls, \* number of calls of shouldRetry
  sleepsDone,    \* number of sleeps that have resolved
  thrown,        \* the error an invocation of operation threw or rejected with
  \* ---- pure functions of index.js, applied to drawn inputs ----
  fn,            \* which function is applied
  arg,           \* its argument
  ret,           \* [set, value]: its return value, once applied
  \* ---- githubCiStatus (src/index.js) ----
  opc,           \* "start" | "resolving" | "fetching" | "returned" | "rejected"
  ooptions,      \* its options: verbosity, useColor, stdout.isTTY, maxWaitMs
  identity,      \* the promises of getProjectName and resolveCommit
  statusOptions, \* the options fetchCiStatus was called with
  fetched,       \* the pair fetchCiStatus resolved with
  statuses,      \* const statuses: the merged records
  state,         \* const state
  stdout,        \* what was written to options.stdout, one entry per write()
  stderr,        \* what was written to options.stderr
  exitCode,      \* the value githubCiStatus resolved with
  oerror,        \* the error githubCiStatus rejected with
  \* ---- fetchCiStatus (src/lib/fetch-ci-status.js) ----
  fpc,           \* "start" | "packageJson" | "single" | "polling" | "resolved" | "rejected"
  foptions,      \* its options: octokit, octokitOptions, retry, debug, waitAll
  agent,         \* let agent: how often one was made, and how often destroyed
  octokit,       \* the client: whether it was constructed here, and its agent
  requests,      \* the two requests of the current attempt
  statusData,    \* what getStatus of the current attempt resolved with
  checksData,    \* what listForRef of the current attempt resolved with
  statusCalls,   \* number of calls of repos.getCombinedStatusForRef
  checksCalls,   \* number of calls of checks.listForRef
  requestAgents, \* the agents the requests were made with
  apiArgs,       \* the first argument: owner, repo and ref
  requestArgs,   \* the arguments the requests were made with
  counters,      \* statusCount, statusWaitCount, checkCount, checkWaitCount
  flog,          \* the calls of options.debug and of the sleep function, in order
  fresult,       \* the pair fetchCiStatus resolved with
  ferror,        \* the error fetchCiStatus rejected with
  \* ---- hubCiStatusMain (src/cli.js) ----
  cpc,           \* "start" | "awaitVersion" | "awaitGcs" | "returned" | "rejected"
  cargs,         \* the arguments: the command line, and whether the types are valid
  gcsCalls,      \* the options of each call of hubCiStatus
  cexit,         \* the exit code hubCiStatusMain resolved with
  cerror         \* the error hubCiStatusMain rejected with

vars == <<operation, optionsArg, options, clock, pc, deadline, waitIterator,
          waitResult, settled, opCalls, opResults, sleeps, resolvedAt,
          calledAt, nextCalls, returnCalls, shouldRetryCalls, sleepsDone,
          thrown,
          fn, arg, ret, opc, ooptions, identity, statusOptions, fetched,
          statuses, state, stdout, stderr, exitCode, oerror,
          fpc, foptions, agent, octokit, requests, statusData, checksData,
          statusCalls, checksCalls, requestAgents, apiArgs, requestArgs,
          counters, flog, fresult, ferror, cpc, cargs, gcsCalls, cexit, cerror>>

retryVars == <<operation, optionsArg, options, clock, pc, deadline,
               waitIterator, waitResult, settled, opCalls, opResults, sleeps,
               resolvedAt, calledAt, nextCalls, returnCalls, shouldRetryCalls,
               sleepsDone, thrown>>
pureVars == <<fn, arg, ret>>
orchVars == <<opc, ooptions, identity, statusOptions, fetched, statuses, state,
              stdout, stderr, exitCode, oerror>>
fetchVars == <<fpc, foptions, agent, octokit, requests, statusData, checksData,
               statusCalls, checksCalls, requestAgents, apiArgs, requestArgs,
               counters, flog, fresult, ferror>>
cliVars == <<cpc, cargs, gcsCalls, cexit, cerror>>

(***************************************************************************)
(* Bounds of the model.                                                    *)
(***************************************************************************)
MaxTotal == 3      \* finite maxTotalMs range over 0..MaxTotal
MaxMinWait == 2    \* minWaitMs ranges over 0..MaxMinWait
MaxWait == 3       \* wait durations range over 0..MaxWait
MaxIterLen == 2    \* longest finite waitMs iterable
MaxOpTime == 1     \* an invocation of operation takes 0..MaxOpTime
MaxAttempts == 3   \* invocations of operation explored per call
StartTime == 1     \* what now() returns when retryAsync is called
MaxRecords == 3    \* longest list of status records given to getState
MaxFetched == 2    \* most entries (statuses plus check runs) of a fetched pair
MaxPolls == 2      \* attempts explored per call of fetchCiStatus
MaxDraws == 7      \* most waits drawn from the default wait sequence

(***************************************************************************)
(* Numbers.  Infinity is larger than every time the model reaches;         *)
(* Minus and IsFinite give it the arithmetic of IEEE Infinity.             *)
(***************************************************************************)
Infinity == 1000000

IsFinite(x) == x < Infinity

Minus(a, b) == IF IsFinite(a) THEN a - b ELSE Infinity

Min(a, b) == IF a <= b THEN a ELSE b

Max(a, b) == IF a >= b THEN a ELSE b

(***************************************************************************)
(*                          lib/retry-async.js                             *)
(***************************************************************************)

\* The results operation can resolve with.
Results == {"a", "b", "c"}

\* shouldRetry(result), the predicate being given as the set of results it
\* accepts.
ShouldRetry(result) == result \in options.shouldRetry

\* Stops with the test of shouldRetry inverted.
StopsInverted(result) == ShouldRetry(result)

\* if (!shouldRetry(result)) return result;
Stops(result) == ~ShouldRetry(result)

\* The errors operation can throw or reject with.
OpErrors == {"OperationError", "NetworkError"}

\* constant(waitMs): an endless generator of the same value.
constant(w) ==
  [items |-> <<w>>, endless |-> TRUE, hasReturn |-> TRUE, pos |-> 0]

\* The terms of exponential up to the first one that reaches the cap.
RECURSIVE ExponentialTerms(_, _, _)
ExponentialTerms(factor, value, max) ==
  IF value >= max THEN <<max>>
  ELSE <<value>> \o ExponentialTerms(factor, value * factor, max)

\* exponential(factor, initial, max, count): each term is the one before it
\* times factor, clamped to max; count terms, or endlessly many (the capped
\* term then repeats).
exponential(factor, initial, max, count) ==
  LET terms == ExponentialTerms(factor, initial, max)
  IN IF IsFinite(count)
       THEN [items |-> [k \in 1..count |-> terms[Min(k, Len(terms))]],
             endless |-> FALSE, hasReturn |-> TRUE, pos |-> 0]
       ELSE [items |-> terms, endless |-> TRUE, hasReturn |-> TRUE, pos |-> 0]

\* waitMs[Symbol.iterator](): an iterator over the items of the iterable.
IteratorOf(waitMs) ==
  [items |-> waitMs.items, endless |-> FALSE,
   hasReturn |-> waitMs.hasReturn, pos |-> 0]

\* Before any iterator is made.
NoIterator == [items |-> <<>>, endless |-> FALSE, hasReturn |-> FALSE, pos |-> 0]

\* let waitResult; (undefined until the first next())
NoWaitResult == [set |-> FALSE, done |-> FALSE, value |-> 0]

\* typeof waitMs === 'number', or waitMs has a Symbol.iterator method (the
\* generator of DEFAULT_OPTIONS.waitMs has one); anything else throws the
\* TypeError.
ValidWaitMs(waitMs) == waitMs.type \in {"number", "iterable", "default"}

\* The two branches that make waitIterator; the default waitMs is the
\* generator that the getter of DEFAULT_OPTIONS makes, its own iterator.
MakeWaitIterator(waitMs) ==
  IF waitMs.type = "number" THEN constant(waitMs.value)
  ELSE IF waitMs.type = "default" THEN exponential(2, 4000, 60000, Infinity)
  ELSE IteratorOf(waitMs)

\* Deadline that is twice maxTotalMs away.
DeadlineDoubled(maxTotalMs, now) ==
  IF IsFinite(maxTotalMs) THEN now + 2 * maxTotalMs ELSE Infinity

\* const deadline = isFinite(maxTotalMs) ? now() + maxTotalMs : Infinity
Deadline(maxTotalMs, now) ==
  IF IsFinite(maxTotalMs) THEN now + maxTotalMs ELSE Infinity

\* waitIterator.next(): the next item; past the items, an endless generator
\* repeats its last item and any other iterator reports done.
IterNext(it) ==
  IF it.pos < Len(it.items)
    THEN [set |-> TRUE, done |-> FALSE, value |-> it.items[it.pos + 1]]
    ELSE IF it.endless
      THEN [set |-> TRUE, done |-> FALSE, value |-> it.items[Len(it.items)]]
      ELSE [set |-> TRUE, done |-> TRUE, value |-> 0]

IterAdvance(it) ==
  IF it.pos >= Len(it.items) THEN it
  ELSE [it EXCEPT !.pos = @ + 1]

\* Remaining without the elapsed time: the whole budget at every attempt.
RemainingWholeBudget(dl, now) == Minus(dl, 0)

\* const remaining = deadline - now()
Remaining(dl, now) == Minus(dl, now)

\* BudgetExhausted without minWaitMs: only an elapsed deadline stops.
BudgetExhaustedPastDeadline(remaining, minWaitMs) == remaining < 0

\* BudgetExhausted that never is.
BudgetExhaustedNever(remaining, minWaitMs) == FALSE

\* remaining < minWaitMs
BudgetExhausted(remaining, minWaitMs) == remaining < minWaitMs

\* Delay without the clamp to the remaining time.
DelayUnclamped(value, remaining) == value

\* const delay = Math.min(waitResult.value, remaining)
Delay(value, remaining) == Min(value, remaining)

\* CallsReturn without the test of waitResult.done.
CallsReturnWhenDone(wr, it) == wr.set /\ it.hasReturn

\* CallsReturn without the test that a value was drawn.
CallsReturnUndrawn(wr, it) == ~wr.done /\ it.hasReturn

\* The condition of the finally block:
\* waitResult && !waitResult.done && waitIterator.return !== undefined
CallsReturn(wr, it) == wr.set /\ ~wr.done /\ it.hasReturn

\* The finally block: the number of calls of return() after it.
Finally(wr, it, calls) == IF CallsReturn(wr, it) THEN calls + 1 ELSE calls

\* Sequences over S of length at most n.
SeqsUpTo(S, n) == UNION {[1..k -> S] : k \in 0..n}

\* The waitMs values a caller can pass: a number, an iterable of numbers
\* (whose iterator may or may not have a return method), or anything else.
WaitMsChoices ==
  {[type |-> "number", value |-> w, items |-> <<>>, hasReturn |-> FALSE] :
     w \in 0..MaxWait}
  \cup {[type |-> "iterable", value |-> 0, items |-> s, hasReturn |-> h] :
     s \in SeqsUpTo(1..MaxWait, MaxIterLen), h \in BOOLEAN}
  \cup {[type |-> "other", value |-> 0, items |-> <<>>, hasReturn |-> FALSE]}

\* The shouldRetry predicates a caller can pass: one that never retries and
\* one that retries on two of the three results.
ShouldRetryChoices == {{}, {"a", "b"}}

OptionsChoices ==
  [maxTotalMs : (0..MaxTotal) \cup {Infinity},
   minWaitMs : 0..MaxMinWait,
   waitMs : WaitMsChoices,
   shouldRetry : ShouldRetryChoices]

\* const DEFAULT_OPTIONS.  defaultShouldRetry retries on a falsy result, and
\* no result of the model is falsy.
DEFAULT_OPTIONS ==
  [maxTotalMs |-> Infinity,
   minWaitMs |-> 4000,
   waitMs |-> [type |-> "default", value |-> 0, items |-> <<>>,
               hasReturn |-> TRUE],
   shouldRetry |-> {}]

\* What a caller can pass as the second argument: an object, nothing,
\* null, or a primitive (a number, a string, a boolean).
OptionsArgKinds == {"object", "undefined", "null", "primitive"}

\* The destructuring of the second parameter, with its default {}: the
\* properties of an object; every default for undefined and for a
\* primitive, which has none of the properties.  (null cannot be
\* destructured: Call throws.)
Destructured(kind) ==
  IF kind = "object" THEN OptionsChoices ELSE {DEFAULT_OPTIONS}

RetryIdle ==
  /\ operation = "function"
  /\ optionsArg = "object"
  /\ shouldRetryCalls = 0
  /\ sleepsDone = 0
  /\ thrown = "none"
  /\ options = [maxTotalMs |-> 0, minWaitMs |-> 0,
                waitMs |-> [type |-> "other", value |-> 0, items |-> <<>>,
                            hasReturn |-> FALSE],
                shouldRetry |-> {}]
  /\ clock = 0
  /\ pc = "idle"
  /\ deadline = 0
  /\ waitIterator = NoIterator
  /\ waitResult = NoWaitResult
  /\ settled = "none"
  /\ opCalls = 0
  /\ opResults = <<>>
  /\ sleeps = <<>>
  /\ resolvedAt = <<>>
  /\ calledAt = 0
  /\ nextCalls = 0
  /\ returnCalls = 0

RetryInit ==
  /\ operation \in {"function", "other"}
  /\ optionsArg \in OptionsArgKinds
  /\ options \in Destructured(optionsArg)
  /\ shouldRetryCalls = 0
  /\ sleepsDone = 0
  /\ thrown = "none"
  /\ clock = StartTime
  /\ pc = "init"
  /\ deadline = 0
  /\ waitIterator = NoIterator
  /\ waitResult = NoWaitResult
  /\ settled = "none"
  /\ opCalls = 0
  /\ opResults = <<>>
  /\ sleeps = <<>>
  /\ resolvedAt = <<>>
  /\ calledAt = 0
  /\ nextCalls = 0
  /\ returnCalls = 0

\* retryAsync is called: the parameters are destructured, the deadline and
\* the iterator are made, and the first iteration of the loop invokes
\* operation.
CallStep ==
  /\ pc = "init"
  /\ IF optionsArg = "null"
       THEN \* null cannot be destructured: the body is not entered
            /\ pc' = "rejected"
            /\ settled' = "TypeError"
            /\ UNCHANGED <<deadline, waitIterator, opCalls, returnCalls>>
       ELSE /\ deadline' = Deadline(options.maxTotalMs, clock)
            /\ IF ~ValidWaitMs(options.waitMs)
                 THEN /\ pc' = "rejected"
                      /\ settled' = "TypeError"
                      /\ UNCHANGED <<waitIterator, opCalls, returnCalls>>
                 ELSE /\ waitIterator' = MakeWaitIterator(options.waitMs)
                      /\ IF operation = "function"
                           THEN /\ opCalls' = opCalls + 1
                                /\ pc' = "awaitOp"
                                /\ UNCHANGED <<settled, returnCalls>>
                           ELSE \* operation(...args) throws inside the try
                                /\ pc' = "rejected"
                                /\ settled' = "TypeError"
                                /\ returnCalls' =
                                     Finally(waitResult, waitIterator', returnCalls)
                                /\ UNCHANGED opCalls
  /\ calledAt' = clock
  /\ UNCHANGED <<operation, optionsArg, options, clock, waitResult, opResults,
                 sleeps, resolvedAt, nextCalls, shouldRetryCalls, sleepsDone,
                 thrown>>

\* retryAsync called on its own.
Call == CallStep /\ UNCHANGED <<pureVars, orchVars, fetchVars, cliVars>>

\* The body of the loop after operation resolved with result at time now,
\* up to its return or up to the sleep; stops is !shouldRetry(result).
AfterOperation(result, now, stops) ==
  LET remaining == Remaining(deadline, now)
      wr == IterNext(waitIterator)
  IN /\ clock' = now
     /\ opResults' = Append(opResults, result)
     /\ resolvedAt' = Append(resolvedAt, now)
     /\ shouldRetryCalls' = shouldRetryCalls + 1
     /\ IF stops \/ BudgetExhausted(remaining, options.minWaitMs)
          THEN /\ pc' = "resolved"
               /\ settled' = result
               /\ returnCalls' = Finally(waitResult, waitIterator, returnCalls)
               /\ UNCHANGED <<waitIterator, waitResult, nextCalls, sleeps>>
          ELSE /\ waitResult' = wr
               /\ waitIterator' = IterAdvance(waitIterator)
               /\ nextCalls' = nextCalls + 1
               /\ IF wr.done
                    THEN /\ pc' = "resolved"
                         /\ settled' = result
                         /\ returnCalls' = Finally(wr, waitIterator, returnCalls)
                         /\ UNCHANGED sleeps
                    ELSE /\ sleeps' = Append(sleeps, Delay(wr.value, remaining))
                         /\ pc' = "awaitSleep"
                         /\ UNCHANGED <<settled, returnCalls>>

\* operation resolves with result r, d clock units after it was invoked.
OpResolves ==
  /\ pc = "awaitOp"
  /\ \E r \in Results, d \in 0..MaxOpTime : AfterOperation(r, clock + d, Stops(r))
  /\ UNCHANGED <<operation, optionsArg, options, deadline, opCalls, calledAt,
                 sleepsDone, thrown>>
  /\ UNCHANGED <<pureVars, orchVars, fetchVars, cliVars>>

\* operation throws or rejects with e: the error leaves the loop through
\* finally, and retryAsync rejects with it.
OperationRejected(e) ==
  /\ thrown' = e
  /\ settled' = e
  /\ pc' = "rejected"
  /\ returnCalls' = Finally(waitResult, waitIterator, returnCalls)
  /\ UNCHANGED <<operation, optionsArg, options, clock, deadline, waitIterator,
                 waitResult, opCalls, opResults, sleeps, resolvedAt, calledAt,
                 nextCalls, shouldRetryCalls, sleepsDone>>

\* OpRejects with the error caught and the operation invoked again.
OpRejectsRetried ==
  /\ pc = "awaitOp"
  /\ opCalls < MaxAttempts
  /\ \E e \in OpErrors : thrown' = e
  /\ opCalls' = opCalls + 1
  /\ UNCHANGED <<operation, optionsArg, options, clock, pc, deadline,
                 waitIterator, waitResult, settled, opResults, sleeps,
                 resolvedAt, calledAt, nextCalls, returnCalls,
                 shouldRetryCalls, sleepsDone>>
  /\ UNCHANGED <<pureVars, orchVars, fetchVars, cliVars>>

\* operation throws or rejects, in a call of retryAsync on its own.
OpRejects ==
  /\ pc = "awaitOp"
  /\ \E e \in OpErrors : OperationRejected(e)
  /\ UNCHANGED <<pureVars, orchVars, fetchVars, cliVars>>

\* SleepResolvesStep with the sleep not awaited: the next iteration starts at once.
SleepResolvesUnawaited ==
  /\ pc = "awaitSleep"
  /\ opCalls < MaxAttempts
  /\ opCalls' = opCalls + 1
  /\ pc' = "awaitOp"
  /\ UNCHANGED <<operation, optionsArg, options, clock, deadline, waitIterator,
                 waitResult, settled, opResults, sleeps, resolvedAt, calledAt,
                 nextCalls, returnCalls, shouldRetryCalls, sleepsDone, thrown>>

\* The sleep ends after its delay, and the next iteration invokes operation.
\* (A timer that fires late shows as a longer invocation: now() is read
\* only after operation resolves.)
SleepResolvesStep ==
  /\ pc = "awaitSleep"
  /\ opCalls < MaxAttempts
  /\ clock' = clock + sleeps[Len(sleeps)]
  /\ sleepsDone' = sleepsDone + 1
  /\ opCalls' = opCalls + 1
  /\ pc' = "awaitOp"
  /\ UNCHANGED <<operation, optionsArg, options, deadline, waitIterator,
                 waitResult, settled, opResults, sleeps, resolvedAt, calledAt,
                 nextCalls, returnCalls, shouldRetryCalls, thrown>>

\* The sleep ends in a call of retryAsync on its own.
SleepResolves == SleepResolvesStep /\ UNCHANGED <<pureVars, orchVars, fetchVars, cliVars>>

\* The sleep rejects (setTimeoutOptions carries an aborted signal, or the
\* caller's setTimeout fails): the error leaves the loop through finally.
SleepRejectsStep ==
  /\ pc = "awaitSleep"
  /\ pc' = "rejected"
  /\ settled' = "AbortError"
  /\ returnCalls' = Finally(waitResult, waitIterator, returnCalls)
  /\ UNCHANGED <<operation, optionsArg, options, clock, deadline, waitIterator,
                 waitResult, opCalls, opResults, sleeps, resolvedAt, calledAt,
                 nextCalls, shouldRetryCalls, sleepsDone, thrown>>

\* The sleep rejects in a call of retryAsync on its own.
SleepRejects == SleepRejectsStep /\ UNCHANGED <<pureVars, orchVars, fetchVars, cliVars>>

RetryNext ==
  \/ Call
  \/ OpResolves
  \/ OpRejects
  \/ SleepResolves
  \/ SleepRejects

(***************************************************************************)
(*                               index.js                                  *)
(***************************************************************************)

\* stateBySeverity with pending above cancelled.
stateBySeverityPendingAboveCancelled ==
  <<"neutral", "success", "cancelled", "pending", "timed_out",
    "action_required", "failure", "error">>

\* const stateBySeverity
stateBySeverity ==
  <<"neutral", "success", "pending", "cancelled", "timed_out",
    "action_required", "failure", "error">>

\* Array.prototype.indexOf: the zero-based index of x in arr, or -1.
IndexOf(arr, x) ==
  IF \E i \in 1..Len(arr) : arr[i] = x
    THEN (CHOOSE i \in 1..Len(arr) :
            arr[i] = x /\ \A j \in 1..(i - 1) : arr[j] # x) - 1
    ELSE -1

\* MaxSeverity without Math.max: the last record wins.
MaxSeverityLast(maxSeverity, status) == IndexOf(stateBySeverity, status.state)

\* The callback of the reduce in getState.
MaxSeverity(maxSeverity, status) ==
  Max(IndexOf(stateBySeverity, status.state), maxSeverity)

\* statuses.reduce(callback, -1), over the first n records.
RECURSIVE ReduceSeverity(_, _)
ReduceSeverity(list, n) ==
  IF n = 0 THEN -1
  ELSE MaxSeverity(ReduceSeverity(list, n - 1), list[n])

\* getState(statuses): stateBySeverity[bestSeverity] || ''
getState(list) ==
  LET bestSeverity == ReduceSeverity(list, Len(list))
  IN IF bestSeverity >= 0 /\ bestSeverity < Len(stateBySeverity)
       THEN stateBySeverity[bestSeverity + 1]
       ELSE ""

\* stateToExitCode with 1 as the default.
stateToExitCodeDefault1(s) ==
  CASE s \in {"neutral", "success"} -> 0
    [] s = "pending" -> 2
    [] OTHER -> 1

\* stateToExitCode(state)
stateToExitCode(s) ==
  CASE s \in {"neutral", "success"} -> 0
    [] s \in {"action_required", "cancelled", "error", "failure", "timed_out"} -> 1
    [] s = "pending" -> 2
    [] OTHER -> 3

\* checkRunToStatus without the test of status.
checkRunToStatusConclusion(checkRun) ==
  [state |-> checkRun.conclusion,
   context |-> checkRun.name,
   target_url |-> checkRun.html_url]

\* checkRunToStatus(checkRun)
checkRunToStatus(checkRun) ==
  [state |-> IF checkRun.status = "completed" THEN checkRun.conclusion
             ELSE "pending",
   context |-> checkRun.name,
   target_url |-> checkRun.html_url]

\* getStateMarker(state, useColor): the glyph, and the colour code that
\* colorize wraps it in (0 when it is left as it is).
getStateMarker(s, useColor) ==
  LET colorize(glyph, code) ==
        [glyph |-> glyph, color |-> IF useColor THEN code ELSE 0]
  IN CASE s = "success" -> colorize("check", 32)
       [] s \in {"action_required", "cancelled", "error", "failure", "timed_out"}
            -> colorize("cross", 31)
       [] s = "neutral" -> colorize("hollow", 30)
       [] s = "pending" -> colorize("filled", 33)
       [] OTHER -> [glyph |-> "", color |-> 0]

\* String.prototype.padEnd, a string being the sequence of its characters.
RECURSIVE padEnd(_, _)
padEnd(str, width) ==
  IF Len(str) >= width THEN str ELSE padEnd(Append(str, " "), width)

\* formatStatus(status, contextWidth, useColor): the marker, the padded
\* context and the target URL that follows a tab ("" when there is none).
formatStatus(status, contextWidth, useColor) ==
  [marker |-> getStateMarker(status.state, useColor),
   context |-> padEnd(status.context, contextWidth),
   targetUrl |-> status.target_url]

\* The reduce in formatStatuses: the longest context of the first n records.
RECURSIVE MaxContext(_, _)
MaxContext(list, n) ==
  IF n = 0 THEN 0 ELSE Max(MaxContext(list, n - 1), Len(list[n].context))

\* formatStatuses(statuses, useColor): the lines that are joined by '\n'.
formatStatuses(list, useColor) ==
  LET contextWidth ==
        IF ~(\E i \in 1..Len(list) : list[i].target_url # "") THEN 0
        ELSE MaxContext(list, Len(list))
  IN [i \in 1..Len(list) |-> formatStatus(list[i], contextWidth, useColor)]

\* The state names of the model: the vocabulary, and names outside it.
StateNames ==
  {"neutral", "success", "pending", "cancelled", "timed_out",
   "action_required", "failure", "error", "", "test123", "skipped"}

\* The status records getState is applied to.
StateRecords ==
  {[state |-> s, context |-> <<"c">>, target_url |-> ""] : s \in StateNames}

\* The check runs checkRunToStatus is applied to.
CheckRunInputs ==
  [status : {"queued", "in_progress", "completed", "requested"},
   conclusion : (StateNames \ {"pending", ""}) \cup {"null"},
   name : {<<"c">>, <<"d", "d">>},
   html_url : {"", "u"}]

(***************************************************************************)
(* githubCiStatus(rev, options)                                            *)
(***************************************************************************)

\* An optional number: undefined, or a number.
Undefined == [given |-> FALSE, value |-> 0]

Num(n) == [given |-> TRUE, value |-> n]

\* x > n, x >= n and x === n of JavaScript; each is false of undefined.
Gt(x, n) == x.given /\ x.value > n

Ge(x, n) == x.given /\ x.value >= n

StrictEq(x, n) == x.given /\ x.value = n

\* The options a caller can pass.  isTTY is stdout.isTTY; a maxWaitMs of 0
\* stands for the falsy values (0 and undefined).
OrchOptionsChoices ==
  [verbosity : {Undefined} \cup {Num(n) : n \in -1..2},
   useColor : {"true", "false", "undefined"},
   isTTY : BOOLEAN,
   maxWaitMs : {0, Infinity}]

\* The entries of a combined status.
StatusEntries ==
  {[state |-> s, context |-> c[1], target_url |-> c[2]] :
     s \in {"error", "failure", "pending", "success", "test123"},
     c \in {<< <<"c">>, "" >>, << <<"d", "d">>, "u" >>}}

\* The check runs of a check-run list.
CheckRuns ==
  {[status |-> k[1], conclusion |-> k[2], name |-> c[1], html_url |-> c[2]] :
     k \in {<<"queued", "null">>, <<"in_progress", "null">>,
            <<"completed", "success">>, <<"completed", "neutral">>,
            <<"completed", "failure">>, <<"completed", "skipped">>},
     c \in {<< <<"c">>, "" >>, << <<"d", "d">>, "u" >>}}

\* The pairs fetchCiStatus can resolve with.
FetchedPairs ==
  {[statuses |-> p[1], check_runs |-> p[2]] :
     p \in {q \in SeqsUpTo(StatusEntries, MaxFetched)
                    \X SeqsUpTo(CheckRuns, MaxFetched) :
              Len(q[1]) + Len(q[2]) <= MaxFetched}}

NoPair == [statuses |-> <<>>, check_runs |-> <<>>]

(***************************************************************************)
(* lib/fetch-ci-status.js: the retry predicate                             *)
(***************************************************************************)

\* let statusCount, statusWaitCount, checkCount, checkWaitCount (all 0)
ZeroCounters ==
  [statusCount |-> 0, statusWaitCount |-> 0,
   checkCount |-> 0, checkWaitCount |-> 0]

\* StatusFails without the test of waitAll.
StatusFailsWaitAll(waitAll, status) == status.state # "success"

\* StatusFails with the test of waitAll inverted.
StatusFailsOnlyWaitAll(waitAll, status) == waitAll /\ status.state # "success"

\* !waitAll && status.state !== 'success', of a status that is not pending
StatusFails(waitAll, status) == ~waitAll /\ status.state # "success"

\* CheckFails that does not take a conclusion of failure for one.
CheckFailsNever(waitAll, checkRun) == FALSE

\* !waitAll && checkRun.conclusion !== 'success'
\*   && checkRun.conclusion !== 'neutral', of a check run that is not waiting
CheckFails(waitAll, checkRun) ==
  ~waitAll /\ checkRun.conclusion # "success" /\ checkRun.conclusion # "neutral"

\* StatusLoop that ends at the first pending status.
RECURSIVE StatusLoopEndsAtPending(_, _, _, _)
StatusLoopEndsAtPending(list, i, waitAll, count) ==
  IF i > Len(list) THEN [returned |-> FALSE, waitCount |-> count]
  ELSE IF list[i].state = "pending"
    THEN [returned |-> FALSE, waitCount |-> count + 1]
    ELSE IF StatusFails(waitAll, list[i])
      THEN [returned |-> TRUE, waitCount |-> count]
      ELSE StatusLoopEndsAtPending(list, i + 1, waitAll, count)

\* The loop over statuses from the i-th on, count being statusWaitCount:
\* whether it returned false, and statusWaitCount when it ended.
RECURSIVE StatusLoop(_, _, _, _)
StatusLoop(list, i, waitAll, count) ==
  IF i > Len(list) THEN [returned |-> FALSE, waitCount |-> count]
  ELSE IF list[i].state = "pending"
    THEN StatusLoop(list, i + 1, waitAll, count + 1)
    ELSE IF StatusFails(waitAll, list[i])
      THEN [returned |-> TRUE, waitCount |-> count]
      ELSE StatusLoop(list, i + 1, waitAll, count)

\* CheckLoop that waits for check runs in progress only.
RECURSIVE CheckLoopInProgressOnly(_, _, _, _)
CheckLoopInProgressOnly(list, i, waitAll, count) ==
  IF i > Len(list) THEN [returned |-> FALSE, waitCount |-> count]
  ELSE IF list[i].status = "in_progress"
    THEN CheckLoopInProgressOnly(list, i + 1, waitAll, count + 1)
    ELSE IF CheckFails(waitAll, list[i])
      THEN [returned |-> TRUE, waitCount |-> count]
      ELSE CheckLoopInProgressOnly(list, i + 1, waitAll, count)

\* The loop over checkRuns, likewise.
RECURSIVE CheckLoop(_, _, _, _)
CheckLoop(list, i, waitAll, count) ==
  IF i > Len(list) THEN [returned |-> FALSE, waitCount |-> count]
  ELSE IF list[i].status = "queued" \/ list[i].status = "in_progress"
    THEN CheckLoop(list, i + 1, waitAll, count + 1)
    ELSE IF CheckFails(waitAll, list[i])
      THEN [returned |-> TRUE, waitCount |-> count]
      ELSE CheckLoop(list, i + 1, waitAll, count)

\* KeepsWaiting without the case of two empty collections.
KeepsWaitingNonEmpty(c) == c.statusWaitCount > 0 \/ c.checkWaitCount > 0

\* statusWaitCount > 0 || checkWaitCount > 0
\*   || (statusCount === 0 && checkCount === 0)
KeepsWaiting(c) ==
  \/ c.statusWaitCount > 0
  \/ c.checkWaitCount > 0
  \/ (c.statusCount = 0 /\ c.checkCount = 0)

\* shouldRetry with the counts kept to itself: the four counters stay as
\* they were.
shouldRetryStale(pair, waitAll, before) ==
  LET s == StatusLoop(pair.statuses, 1, waitAll, 0)
      c == CheckLoop(pair.check_runs, 1, waitAll, 0)
      fresh == [statusCount |-> Len(pair.statuses),
                statusWaitCount |-> s.waitCount,
                checkCount |-> Len(pair.check_runs),
                checkWaitCount |-> c.waitCount]
  IN [value |-> ~s.returned /\ ~c.returned /\ KeepsWaiting(fresh),
      counters |-> before]

\* shouldRetry([combinedStatus, checksList]): the value it returns, and the
\* four counters as it leaves them (before is what they were).
shouldRetry(pair, waitAll, before) ==
  LET s == StatusLoop(pair.statuses, 1, waitAll, 0)
      afterStatuses ==
        [before EXCEPT !.statusCount = Len(pair.statuses),
                         !.statusWaitCount = s.waitCount]
      c == CheckLoop(pair.check_runs, 1, waitAll, 0)
      afterChecks ==
        [afterStatuses EXCEPT !.checkCount = Len(pair.check_runs),
                              !.checkWaitCount = c.waitCount]
  IN IF s.returned THEN [value |-> FALSE, counters |-> afterStatuses]
     ELSE IF c.returned THEN [value |-> FALSE, counters |-> afterChecks]
     ELSE [value |-> KeepsWaiting(afterChecks), counters |-> afterChecks]

(***************************************************************************)
(* The pure functions, each applied to a drawn input.                      *)
(***************************************************************************)

PureIdle ==
  /\ fn = "none"
  /\ arg = 0
  /\ ret = [set |-> FALSE, value |-> 0]

PureInit ==
  /\ \/ fn = "getState" /\ arg \in SeqsUpTo(StateRecords, MaxRecords)
     \/ fn = "stateToExitCode" /\ arg \in StateNames
     \/ fn = "checkRunToStatus" /\ arg \in CheckRunInputs
     \/ fn = "shouldRetry" /\ arg \in [pair : FetchedPairs, waitAll : BOOLEAN]
     \/ fn = "waitMs" /\ arg \in [earlier : 0..MaxDraws, draws : 0..MaxDraws]
  /\ ret = [set |-> FALSE, value |-> 0]

ApplyGetState ==
  /\ fn = "getState"
  /\ ~ret.set
  /\ ret' = [set |-> TRUE, value |-> getState(arg)]
  /\ UNCHANGED <<fn, arg>>
  /\ UNCHANGED <<retryVars, orchVars, fetchVars, cliVars>>

ApplyStateToExitCode ==
  /\ fn = "stateToExitCode"
  /\ ~ret.set
  /\ ret' = [set |-> TRUE, value |-> stateToExitCode(arg)]
  /\ UNCHANGED <<fn, arg>>
  /\ UNCHANGED <<retryVars, orchVars, fetchVars, cliVars>>

ApplyCheckRunToStatus ==
  /\ fn = "checkRunToStatus"
  /\ ~ret.set
  /\ ret' = [set |-> TRUE, value |-> checkRunToStatus(arg)]
  /\ UNCHANGED <<fn, arg>>
  /\ UNCHANGED <<retryVars, orchVars, fetchVars, cliVars>>

\* shouldRetry is applied to a fetched pair, the counters being 0 before.
ApplyShouldRetry ==
  /\ fn = "shouldRetry"
  /\ ~ret.set
  /\ ret' = [set |-> TRUE,
             value |-> shouldRetry(arg.pair, arg.waitAll, ZeroCounters)]
  /\ UNCHANGED <<fn, arg>>
  /\ UNCHANGED <<retryVars, orchVars, fetchVars, cliVars>>

\* The values of the first k calls of next() on the iterator it, as the
\* loop of retryAsync draws them (none after one that reports done).
RECURSIVE Draws(_, _)
Draws(it, k) ==
  IF k = 0 \/ IterNext(it).done THEN <<>>
  ELSE <<IterNext(it).value>> \o Draws(IterAdvance(it), k - 1)

\* The iterator of a call without waitMs if DEFAULT_OPTIONS.waitMs were one
\* generator, shared by every call: earlier draws have advanced it.
RECURSIVE DefaultWaitIteratorShared(_)
DefaultWaitIteratorShared(earlier) ==
  IF earlier = 0 THEN MakeWaitIterator(DEFAULT_OPTIONS.waitMs)
  ELSE IterAdvance(DefaultWaitIteratorShared(earlier - 1))

\* The iterator of a call without waitMs, after calls before it have drawn
\* earlier waits: waitMs = DEFAULT_OPTIONS.waitMs reads the getter, which
\* makes a new generator for each call.
DefaultWaitIterator(earlier) == MakeWaitIterator(DEFAULT_OPTIONS.waitMs)

\* A call without waitMs draws arg.draws waits, after arg.earlier waits were
\* drawn by calls before it.
ApplyWaitMs ==
  /\ fn = "waitMs"
  /\ ~ret.set
  /\ ret' = [set |-> TRUE,
             value |-> Draws(DefaultWaitIterator(arg.earlier), arg.draws)]
  /\ UNCHANGED <<fn, arg>>
  /\ UNCHANGED <<retryVars, orchVars, fetchVars, cliVars>>

PureNext ==
  \/ ApplyGetState
  \/ ApplyStateToExitCode
  \/ ApplyCheckRunToStatus
  \/ ApplyShouldRetry
  \/ ApplyWaitMs


NoStatusOptions == [retry |-> Undefined, debug |-> FALSE]

OrchIdle ==
  /\ opc = "idle"
  /\ ooptions = [verbosity |-> Undefined, useColor |-> "undefined",
                 isTTY |-> FALSE, maxWaitMs |-> 0]
  /\ identity = [project |-> "none", commit |-> "none"]
  /\ statusOptions = NoStatusOptions
  /\ fetched = NoPair
  /\ statuses = <<>>
  /\ state = ""
  /\ stdout = <<>>
  /\ stderr = <<>>
  /\ exitCode = -1
  /\ oerror = "none"

OrchInit ==
  /\ opc = "start"
  /\ ooptions \in OrchOptionsChoices
  /\ identity = [project |-> "none", commit |-> "none"]
  /\ statusOptions = NoStatusOptions
  /\ fetched = NoPair
  /\ statuses = <<>>
  /\ state = ""
  /\ stdout = <<>>
  /\ stderr = <<>>
  /\ exitCode = -1
  /\ oerror = "none"

\* The statusOptions object: retry is undefined for a falsy maxWaitMs, and
\* debug is set when verbosity > 1.
StatusOptions(o) ==
  [retry |-> IF o.maxWaitMs = 0 THEN Undefined ELSE Num(o.maxWaitMs),
   debug |-> Gt(o.verbosity, 1)]

\* const statuses = [...combinedStatus.statuses,
\*                   ...checksList.check_runs.map(checkRunToStatus)]
MergeStatuses(pair) ==
  pair.statuses
    \o [i \in 1..Len(pair.check_runs) |-> checkRunToStatus(pair.check_runs[i])]

\* Prints whatever the verbosity is.
PrintsAlways(o) == TRUE

\* Is anything written to stdout?  (options.verbosity >= 0)
Prints(o) == Ge(o.verbosity, 0)

\* const useColor
UseColor(o) ==
  IF o.useColor = "false" THEN FALSE
  ELSE IF o.useColor = "true" THEN TRUE
  ELSE o.isTTY

\* The line written to stdout: the state at verbosity 0, the formatted
\* statuses otherwise, and 'no status' when that is the empty string.
Written(o, list, st) ==
  IF StrictEq(o.verbosity, 0)
    THEN IF st = "" THEN [kind |-> "no status", text |-> "", lines |-> <<>>]
         ELSE [kind |-> "state", text |-> st, lines |-> <<>>]
    ELSE IF formatStatuses(list, UseColor(o)) = <<>>
      THEN [kind |-> "no status", text |-> "", lines |-> <<>>]
      ELSE [kind |-> "statuses", text |-> "",
            lines |-> formatStatuses(list, UseColor(o))]

\* githubCiStatus is called: getProjectName and resolveCommit are started.
OrchCall ==
  /\ opc = "start"
  /\ opc' = "resolving"
  /\ identity' = [project |-> "pending", commit |-> "pending"]
  /\ UNCHANGED <<ooptions, statusOptions, fetched, statuses, state, stdout,
                 stderr, exitCode, oerror>>
  /\ UNCHANGED <<retryVars, pureVars, fetchVars, cliVars>>

\* IdentityResolves that goes on to fetchCiStatus as soon as one of the two
\* promises has resolved.
IdentityResolvesEither(which) ==
  /\ identity[which] = "pending"
  /\ identity' = [identity EXCEPT ![which] = "resolved"]
  /\ IF opc = "resolving"
       THEN /\ opc' = "fetching"
            /\ statusOptions' = StatusOptions(ooptions)
       ELSE UNCHANGED <<opc, statusOptions>>
  /\ UNCHANGED <<ooptions, fetched, statuses, state, stdout, stderr, exitCode,
                 oerror>>
  /\ UNCHANGED <<retryVars, pureVars, fetchVars, cliVars>>

\* One of the two promises of Promise.all resolves; when it is the second,
\* fetchCiStatus is called.
IdentityResolves(which) ==
  /\ identity[which] = "pending"
  /\ identity' = [identity EXCEPT ![which] = "resolved"]
  /\ IF opc = "resolving" /\ \A w \in {"project", "commit"} : identity'[w] = "resolved"
       THEN /\ opc' = "fetching"
            /\ statusOptions' = StatusOptions(ooptions)
       ELSE UNCHANGED <<opc, statusOptions>>
  /\ UNCHANGED <<ooptions, fetched, statuses, state, stdout, stderr, exitCode,
                 oerror>>
  /\ UNCHANGED <<retryVars, pureVars, fetchVars, cliVars>>

ProjectResolves == IdentityResolves("project")

CommitResolves == IdentityResolves("commit")

\* One of the two promises rejects: Promise.all, and githubCiStatus with it,
\* rejects with the first error.
IdentityRejects(which) ==
  /\ identity[which] = "pending"
  /\ identity' = [identity EXCEPT ![which] = "rejected"]
  /\ IF opc = "resolving"
       THEN /\ opc' = "rejected"
            /\ oerror' = which
       ELSE UNCHANGED <<opc, oerror>>
  /\ UNCHANGED <<ooptions, statusOptions, fetched, statuses, state, stdout,
                 stderr, exitCode>>
  /\ UNCHANGED <<retryVars, pureVars, fetchVars, cliVars>>

ProjectRejects == IdentityRejects("project")

CommitRejects == IdentityRejects("commit")

\* fetchCiStatus resolves: the records are merged, the state is computed and
\* printed, and the exit code is returned.
FetchResolves ==
  /\ opc = "fetching"
  /\ \E pair \in FetchedPairs :
       /\ fetched' = pair
       /\ statuses' = MergeStatuses(pair)
       /\ state' = getState(statuses')
       /\ stdout' = IF Prints(ooptions)
                      THEN Append(stdout, Written(ooptions, statuses', state'))
                      ELSE stdout
       /\ exitCode' = stateToExitCode(state')
  /\ opc' = "returned"
  /\ UNCHANGED <<ooptions, identity, statusOptions, stderr, oerror>>
  /\ UNCHANGED <<retryVars, pureVars, fetchVars, cliVars>>

\* fetchCiStatus rejects, and githubCiStatus with it.
FetchRejects ==
  /\ opc = "fetching"
  /\ opc' = "rejected"
  /\ oerror' = "fetch"
  /\ UNCHANGED <<ooptions, identity, statusOptions, fetched, statuses, state,
                 stdout, stderr, exitCode>>
  /\ UNCHANGED <<retryVars, pureVars, fetchVars, cliVars>>

OrchNext ==
  \/ OrchCall
  \/ ProjectResolves
  \/ CommitResolves
  \/ ProjectRejects
  \/ CommitRejects
  \/ FetchResolves
  \/ FetchRejects

(***************************************************************************)
(*                        lib/fetch-ci-status.js                           *)
(***************************************************************************)

\* The retry options a caller of fetchCiStatus can pass, as retryAsync
\* destructures them (shouldRetry is replaced by the fetcher's predicate and
\* is not read): {} with every default; a deadline of 4000 with the other
\* defaults; a constant wait beyond the deadline; a wait sequence of one
\* item; and a waitMs that is neither a number nor an iterable.
FetchRetryChoices ==
  {DEFAULT_OPTIONS,
   [DEFAULT_OPTIONS EXCEPT !.maxTotalMs = 4000],
   [maxTotalMs |-> MaxTotal - 1, minWaitMs |-> 1,
    waitMs |-> [type |-> "number", value |-> MaxWait, items |-> <<>>,
                hasReturn |-> FALSE],
    shouldRetry |-> {}],
   [maxTotalMs |-> Infinity, minWaitMs |-> 0,
    waitMs |-> [type |-> "iterable", value |-> 0, items |-> <<1>>,
                hasReturn |-> TRUE],
    shouldRetry |-> {}],
   [DEFAULT_OPTIONS EXCEPT
      !.waitMs = [type |-> "other", value |-> 0, items |-> <<>>,
                  hasReturn |-> FALSE]]}

\* options.retry: falsy or absent, or an object.
NoRetry == [given |-> FALSE, options |-> DEFAULT_OPTIONS]

RetryChoices ==
  {NoRetry} \cup {[given |-> TRUE, options |-> o] : o \in FetchRetryChoices}

\* The options without a client, when the caller passes options.octokit.
NoOctokitOptions == [request |-> "undefined", baseUrl |-> "undefined"]

\* options.octokitOptions: request is undefined, an object without an agent,
\* or an object with one (null included); baseUrl is undefined or a URL of
\* the named protocol.
OctokitOptionsChoices ==
  [request : {"undefined", "withoutAgent", "withAgent"},
   baseUrl : {"undefined", "https:", "http:", "foo:"}]

\* The options a caller can pass: with a client of the caller's, or with
\* options for the client that fetchCiStatus constructs.
FetchOptionsChoices ==
  [octokit : {TRUE}, octokitOptions : {NoOctokitOptions},
   retry : RetryChoices, debug : BOOLEAN, waitAll : BOOLEAN]
  \cup
  [octokit : {FALSE}, octokitOptions : OctokitOptionsChoices,
   retry : RetryChoices, debug : {FALSE}, waitAll : {FALSE}]

\* What repos.getCombinedStatusForRef can resolve with: the statuses.
Status(s) == [state |-> s, context |-> <<"c">>, target_url |-> ""]

RemoteStatuses ==
  {<<>>, <<Status("pending")>>, <<Status("success")>>,
   <<Status("pending"), Status("failure")>>}

\* What checks.listForRef can resolve with: the check runs.
CheckRun(s, c) ==
  [status |-> s, conclusion |-> c, name |-> <<"c">>, html_url |-> ""]

RemoteCheckRuns ==
  {<<>>, <<CheckRun("queued", "null")>>, <<CheckRun("completed", "success")>>,
   <<CheckRun("completed", "failure")>>, <<CheckRun("completed", "skipped")>>}

NoRequests == [status |-> "idle", checks |-> "idle"]

\* No arguments: fetchCiStatus has not been called.
NoApiArgs == [owner |-> "none", repo |-> "none", ref |-> "none"]

\* The first argument of fetchCiStatus: { owner, repo, ref }.
ApiArgsChoices ==
  {[owner |-> "kevinoid", repo |-> "hub-ci-status", ref |-> r] :
     r \in {"HEAD", "main"}}

FetchIdle ==
  /\ fpc = "idle"
  /\ foptions = [octokit |-> TRUE, octokitOptions |-> NoOctokitOptions,
                 retry |-> NoRetry, debug |-> FALSE, waitAll |-> FALSE]
  /\ agent = [created |-> 0, destroyed |-> 0]
  /\ octokit = [constructed |-> FALSE, agent |-> "none"]
  /\ requests = NoRequests
  /\ statusData = <<>>
  /\ checksData = <<>>
  /\ statusCalls = 0
  /\ checksCalls = 0
  /\ requestAgents = {}
  /\ apiArgs = NoApiArgs
  /\ requestArgs = {}
  /\ counters = ZeroCounters
  /\ flog = <<>>
  /\ fresult = NoPair
  /\ ferror = "none"

\* Before fetchCiStatus is called; retryAsync has not been called either,
\* and options is what it will destructure from retryOptions.
FetchInit ==
  /\ fpc = "start"
  /\ foptions \in FetchOptionsChoices
  /\ agent = [created |-> 0, destroyed |-> 0]
  /\ octokit = [constructed |-> FALSE, agent |-> "none"]
  /\ requests = NoRequests
  /\ statusData = <<>>
  /\ checksData = <<>>
  /\ statusCalls = 0
  /\ checksCalls = 0
  /\ requestAgents = {}
  /\ apiArgs \in ApiArgsChoices
  /\ requestArgs = {}
  /\ counters = ZeroCounters
  /\ flog = <<>>
  /\ fresult = NoPair
  /\ ferror = "none"
  /\ operation = "function"
  /\ optionsArg = "object"
  /\ options = foptions.retry.options
  /\ clock = StartTime
  /\ pc = "init"
  /\ deadline = 0
  /\ waitIterator = NoIterator
  /\ waitResult = NoWaitResult
  /\ settled = "none"
  /\ opCalls = 0
  /\ opResults = <<>>
  /\ sleeps = <<>>
  /\ resolvedAt = <<>>
  /\ calledAt = 0
  /\ nextCalls = 0
  /\ returnCalls = 0
  /\ shouldRetryCalls = 0
  /\ sleepsDone = 0
  /\ thrown = "none"

\* The protocol of the client's URL: new URL(baseUrl).protocol, or 'https:'.
Protocol(o) ==
  IF o.octokitOptions.baseUrl = "undefined" THEN "https:"
  ELSE o.octokitOptions.baseUrl

\* const Agent: the class for the protocol, or undefined.
AgentClass(protocol) ==
  IF protocol = "https:" THEN "HttpsAgent"
  ELSE IF protocol = "http:" THEN "HttpAgent"
  ELSE "undefined"

\* CreatesAgent without the test of the protocol.
CreatesAgentAnyProtocol(o) ==
  /\ o.retry.given
  /\ o.octokitOptions.request \in {"undefined", "withoutAgent"}

\* Is a keep-alive agent made?  options.retry is truthy, the caller gave no
\* agent in octokitOptions.request, and there is an Agent for the protocol.
CreatesAgent(o) ==
  /\ o.retry.given
  /\ o.octokitOptions.request \in {"undefined", "withoutAgent"}
  /\ AgentClass(Protocol(o)) # "undefined"

\* finally { if (agent) agent.destroy(); }
Destroy(a) == IF a.created > 0 THEN [a EXCEPT !.destroyed = @ + 1] ELSE a

\* delay / 1000: the seconds of the debug line, as whole seconds and the
\* thousandths that follow the decimal point.
Seconds(delay) == [whole |-> delay \div 1000, millis |-> delay % 1000]

\* let waitingFor: 'any CI status or check', or the waiting counts of the
\* statuses and of the checks, each shown when it is positive, joined by
\* ' and ' when both are.
WaitingFor(c) ==
  IF c.statusCount = 0 /\ c.checkCount = 0
    THEN [text |-> "any CI status or check",
          statuses |-> [shown |-> FALSE, waiting |-> 0, of |-> 0],
          checks |-> [shown |-> FALSE, waiting |-> 0, of |-> 0]]
    ELSE [text |-> IF c.statusWaitCount > 0 /\ c.checkWaitCount > 0
                     THEN "CI statuses and checks"
                   ELSE IF c.statusWaitCount > 0 THEN "CI statuses"
                   ELSE IF c.checkWaitCount > 0 THEN "checks"
                   ELSE "",
          statuses |-> IF c.statusWaitCount > 0
                         THEN [shown |-> TRUE, waiting |-> c.statusWaitCount,
                               of |-> c.statusCount]
                         ELSE [shown |-> FALSE, waiting |-> 0, of |-> 0],
          checks |-> IF c.checkWaitCount > 0
                       THEN [shown |-> TRUE, waiting |-> c.checkWaitCount,
                             of |-> c.checkCount]
                       ELSE [shown |-> FALSE, waiting |-> 0, of |-> 0]]

\* An entry of the log: a call of options.debug, or of the sleep function.
DebugCall(c, delay) ==
  [kind |-> "debug", delay |-> delay, waitingFor |-> WaitingFor(c),
   seconds |-> Seconds(delay)]

SleepCall(delay) ==
  [kind |-> "setTimeout", delay |-> delay, waitingFor |-> WaitingFor(ZeroCounters),
   seconds |-> Seconds(0)]

\* origSetTimeout(delay, value, opts)
OrigSetTimeout(log, delay) == Append(log, SleepCall(delay))

\* DebugSetTimeout with the line written after the sleep was started.
DebugSetTimeoutAfter(log, c, delay) ==
  Append(OrigSetTimeout(log, delay), DebugCall(c, delay))

\* retryOptions.setTimeout when options.debug is given: the line is written,
\* then the sleep function is called.
DebugSetTimeout(log, c, delay) ==
  OrigSetTimeout(Append(log, DebugCall(c, delay)), delay)

\* StartRequests with listForRef called without the ref.
StartRequestsOtherArgs(ag) ==
  /\ requests' = [requests EXCEPT !.status = "pending", !.checks = "pending"]
  /\ statusCalls' = statusCalls + 1
  /\ checksCalls' = checksCalls + 1
  /\ requestAgents' = requestAgents \cup {ag}
  /\ requestArgs' = requestArgs \cup {apiArgs, [apiArgs EXCEPT !.ref = "none"]}

\* getBoth(): both requests are started, with the agent of the client.
StartRequests(ag) ==
  /\ requests' = [status |-> "pending", checks |-> "pending"]
  /\ statusCalls' = statusCalls + 1
  /\ checksCalls' = checksCalls + 1
  /\ requestAgents' = requestAgents \cup {ag}
  /\ requestArgs' = requestArgs \cup {apiArgs}

\* UsesRetry whatever options.retry is.
UsesRetryAlways(o) == TRUE

\* retry ? retryAsync(getBoth, retryOptions) : getBoth()
UsesRetry(o) == o.retry.given

\* From const { debug, retry, waitAll } = options to the await in the try:
\* retryAsync(getBoth, retryOptions) or getBoth() is called, a being the
\* agent and ag the agent of the client.  A retryAsync that rejects before
\* its first invocation of getBoth ends the call through finally.
Begin(a, ag) ==
  /\ IF UsesRetry(foptions)
       THEN /\ CallStep
            /\ IF pc' = "awaitOp"
                 THEN /\ fpc' = "polling"
                      /\ agent' = a
                      /\ StartRequests(ag)
                      /\ UNCHANGED ferror
                 ELSE /\ fpc' = "rejected"
                      /\ ferror' = settled'
                      /\ agent' = Destroy(a)
                      /\ UNCHANGED <<requests, statusCalls, checksCalls,
                                     requestAgents, requestArgs>>
       ELSE /\ fpc' = "single"
            /\ agent' = a
            /\ StartRequests(ag)
            /\ UNCHANGED <<retryVars, ferror>>
  /\ UNCHANGED <<foptions, apiArgs, statusData, checksData, counters, flog, fresult>>

\* fetchCiStatus is called: with a client of the caller's it goes on to the
\* first attempt; without one it awaits getPackageJson().
FetchCall ==
  /\ fpc = "start"
  /\ IF foptions.octokit
       THEN /\ octokit' = [constructed |-> FALSE, agent |-> "caller"]
            /\ Begin(agent, "caller")
       ELSE /\ fpc' = "packageJson"
            /\ UNCHANGED <<retryVars, foptions, apiArgs, agent, octokit, requests,
                           statusData, checksData, statusCalls, checksCalls,
                           requestAgents, requestArgs, counters, flog, fresult, ferror>>
  /\ UNCHANGED <<pureVars, orchVars, cliVars>>

\* getPackageJson() resolves: the agent is made if CreatesAgent, the client
\* is constructed (its constructor returns, or throws), and the first attempt
\* is started.
PackageJsonResolves ==
  /\ fpc = "packageJson"
  /\ LET made == CreatesAgent(foptions)
         a == IF made THEN [agent EXCEPT !.created = @ + 1] ELSE agent
         ag == IF made THEN "own"
               ELSE IF foptions.octokitOptions.request = "withAgent"
                 THEN "caller"
                 ELSE "none"
     IN \E constructs \in BOOLEAN :
          IF constructs
            THEN /\ octokit' = [constructed |-> TRUE, agent |-> ag]
                 /\ Begin(a, ag)
            ELSE /\ fpc' = "rejected"
                 /\ ferror' = "OctokitError"
                 /\ agent' = a
                 /\ UNCHANGED <<retryVars, foptions, apiArgs, octokit, requests,
                                statusData, checksData, statusCalls,
                                checksCalls, requestAgents, requestArgs, counters, flog,
                                fresult>>
  /\ UNCHANGED <<pureVars, orchVars, cliVars>>

\* getPackageJson() rejects, and fetchCiStatus with it.
PackageJsonRejects ==
  /\ fpc = "packageJson"
  /\ fpc' = "rejected"
  /\ ferror' = "PackageJsonError"
  /\ UNCHANGED <<retryVars, foptions, apiArgs, agent, octokit, requests, statusData,
                 checksData, statusCalls, checksCalls, requestAgents, requestArgs,
                 counters, flog, fresult>>
  /\ UNCHANGED <<pureVars, orchVars, cliVars>>

\* Is the call still awaiting its attempt?
Live == fpc \in {"single", "polling"}

\* Promise.all resolves with pair at time now.  Without retry the call
\* resolves with it; with retry the loop of retryAsync goes on with
\* shouldRetry(pair), which may start a sleep through retryOptions.setTimeout,
\* and a retryAsync that resolves ends the call through finally.
BothResolved(pair, now) ==
  IF fpc = "single"
    THEN /\ fpc' = "resolved"
         /\ fresult' = pair
         /\ agent' = Destroy(agent)
         /\ clock' = now
         /\ UNCHANGED <<operation, optionsArg, options, pc, deadline,
                        waitIterator, waitResult, settled, opCalls, opResults,
                        sleeps, resolvedAt, calledAt, nextCalls, returnCalls,
                        shouldRetryCalls, sleepsDone, thrown>>
         /\ UNCHANGED <<counters, flog>>
    ELSE LET sr == shouldRetry(pair, foptions.waitAll, counters)
         IN /\ AfterOperation(pair, now, ~sr.value)
            /\ UNCHANGED <<operation, optionsArg, options, deadline, opCalls,
                           calledAt, sleepsDone, thrown>>
            /\ counters' = sr.counters
            /\ flog' = IF pc' # "awaitSleep" THEN flog
                       ELSE IF foptions.debug
                         THEN DebugSetTimeout(flog, counters',
                                              sleeps'[Len(sleeps')])
                         ELSE OrigSetTimeout(flog, sleeps'[Len(sleeps')])
            /\ IF pc' = "resolved"
                 THEN /\ fpc' = "resolved"
                      /\ fresult' = settled'
                      /\ agent' = Destroy(agent)
                 ELSE UNCHANGED <<fpc, fresult, agent>>

\* A request rejects with e.  Promise.all rejects with the first rejection:
\* the attempt, retryAsync and the call reject with it through finally.
AttemptRejected(e) ==
  /\ IF fpc = "polling" THEN OperationRejected(e) ELSE UNCHANGED retryVars
  /\ fpc' = "rejected"
  /\ ferror' = e
  /\ agent' = Destroy(agent)
  /\ UNCHANGED <<counters, flog, fresult>>

\* octokit.repos.getCombinedStatusForRef resolves with data (d clock units
\* after the other request, when that resolved before).  The response of an
\* attempt that has rejected is dropped.
StatusResolves ==
  /\ requests.status = "pending"
  /\ requests' = [requests EXCEPT !.status = "resolved"]
  /\ \E data \in RemoteStatuses, d \in 0..MaxOpTime :
       IF Live /\ requests.checks = "resolved"
         THEN /\ statusData' = data
              /\ BothResolved([statuses |-> data, check_runs |-> checksData],
                              clock + d)
         ELSE /\ statusData' = IF Live THEN data ELSE statusData
              /\ UNCHANGED <<retryVars, fpc, agent, counters, flog, fresult>>
  /\ UNCHANGED <<foptions, apiArgs, octokit, checksData, statusCalls, checksCalls,
                 requestAgents, requestArgs, ferror>>
  /\ UNCHANGED <<pureVars, orchVars, cliVars>>

\* ChecksResolves with the attempt resolved by the first response
\* (Promise.race in place of Promise.all).
ChecksResolvesFirst ==
  /\ requests.checks = "pending"
  /\ requests' = [requests EXCEPT !.checks = "resolved"]
  /\ \E data \in RemoteCheckRuns, d \in 0..MaxOpTime :
       IF Live /\ pc # "awaitSleep"
         THEN /\ checksData' = data
              /\ BothResolved([statuses |-> statusData, check_runs |-> data],
                              clock + d)
         ELSE /\ checksData' = IF Live THEN data ELSE checksData
              /\ UNCHANGED <<retryVars, fpc, agent, counters, flog, fresult>>
  /\ UNCHANGED <<foptions, apiArgs, octokit, statusData, statusCalls,
                 checksCalls, requestAgents, requestArgs, ferror>>
  /\ UNCHANGED <<pureVars, orchVars, cliVars>>

\* octokit.checks.listForRef resolves with data, likewise.
ChecksResolves ==
  /\ requests.checks = "pending"
  /\ requests' = [requests EXCEPT !.checks = "resolved"]
  /\ \E data \in RemoteCheckRuns, d \in 0..MaxOpTime :
       IF Live /\ requests.status = "resolved"
         THEN /\ checksData' = data
              /\ BothResolved([statuses |-> statusData, check_runs |-> data],
                              clock + d)
         ELSE /\ checksData' = IF Live THEN data ELSE checksData
              /\ UNCHANGED <<retryVars, fpc, agent, counters, flog, fresult>>
  /\ UNCHANGED <<foptions, apiArgs, octokit, statusData, statusCalls, checksCalls,
                 requestAgents, requestArgs, ferror>>
  /\ UNCHANGED <<pureVars, orchVars, cliVars>>

\* StatusRejects with the rejection held back while the other request is
\* pending (Promise.allSettled in place of Promise.all).
StatusRejectsHeldBack ==
  /\ requests.status = "pending"
  /\ requests' = [requests EXCEPT !.status = "rejected"]
  /\ IF Live /\ requests.checks # "pending" THEN AttemptRejected("StatusError")
     ELSE UNCHANGED <<retryVars, fpc, ferror, agent, counters, flog, fresult>>
  /\ UNCHANGED <<foptions, apiArgs, octokit, statusData, checksData, statusCalls,
                 checksCalls, requestAgents, requestArgs>>
  /\ UNCHANGED <<pureVars, orchVars, cliVars>>

\* octokit.repos.getCombinedStatusForRef rejects.
StatusRejects ==
  /\ requests.status = "pending"
  /\ requests' = [requests EXCEPT !.status = "rejected"]
  /\ IF Live THEN AttemptRejected("StatusError")
     ELSE UNCHANGED <<retryVars, fpc, ferror, agent, counters, flog, fresult>>
  /\ UNCHANGED <<foptions, apiArgs, octokit, statusData, checksData, statusCalls,
                 checksCalls, requestAgents, requestArgs>>
  /\ UNCHANGED <<pureVars, orchVars, cliVars>>

\* octokit.checks.listForRef rejects.
ChecksRejects ==
  /\ requests.checks = "pending"
  /\ requests' = [requests EXCEPT !.checks = "rejected"]
  /\ IF Live THEN AttemptRejected("ChecksError")
     ELSE UNCHANGED <<retryVars, fpc, ferror, agent, counters, flog, fresult>>
  /\ UNCHANGED <<foptions, apiArgs, octokit, statusData, checksData, statusCalls,
                 checksCalls, requestAgents, requestArgs>>
  /\ UNCHANGED <<pureVars, orchVars, cliVars>>

\* The sleep ends: the next iteration of retryAsync calls getBoth again.
FetchSleepResolves ==
  /\ fpc = "polling"
  /\ opCalls < MaxPolls
  /\ SleepResolvesStep
  /\ StartRequests(octokit.agent)
  /\ statusData' = <<>>
  /\ checksData' = <<>>
  /\ UNCHANGED <<fpc, foptions, apiArgs, agent, octokit, counters, flog, fresult,
                 ferror>>
  /\ UNCHANGED <<pureVars, orchVars, cliVars>>

\* The sleep rejects: retryAsync and the call reject through finally.
FetchSleepRejects ==
  /\ fpc = "polling"
  /\ SleepRejectsStep
  /\ fpc' = "rejected"
  /\ ferror' = "AbortError"
  /\ agent' = Destroy(agent)
  /\ UNCHANGED <<foptions, apiArgs, octokit, requests, statusData, checksData,
                 statusCalls, checksCalls, requestAgents, requestArgs, counters, flog,
                 fresult>>
  /\ UNCHANGED <<pureVars, orchVars, cliVars>>

FetchNext ==
  \/ FetchCall
  \/ PackageJsonResolves
  \/ PackageJsonRejects
  \/ StatusResolves
  \/ ChecksResolves
  \/ StatusRejects
  \/ ChecksRejects
  \/ FetchSleepResolves
  \/ FetchSleepRejects

(***************************************************************************)
(*                                cli.js                                   *)
(***************************************************************************)

\* The decimal digits; a string is the sequence of its characters.
Digits == <<"0", "1", "2", "3", "4", "5", "6", "7", "8", "9">>

IsDigit(c) == \E i \in 1..Len(Digits) : Digits[i] = c

DigitValue(c) == (CHOOSE i \in 1..Len(Digits) : Digits[i] = c) - 1

\* The value of the first n characters of a string of digits.
RECURSIVE DecimalValue(_, _)
DecimalValue(str, n) ==
  IF n = 0 THEN 0 ELSE 10 * DecimalValue(str, n - 1) + DigitValue(str[n])

AllDigits(str) == Len(str) > 0 /\ \A i \in 1..Len(str) : IsDigit(str[i])

\* Number(arg) of a string: 0 for the empty string, the value of a decimal
\* integer with an optional minus sign, and NaN for the other strings of the
\* model.
Number(str) ==
  IF str = <<>> THEN [nan |-> FALSE, value |-> 0]
  ELSE IF AllDigits(str)
    THEN [nan |-> FALSE, value |-> DecimalValue(str, Len(str))]
  ELSE IF str[1] = "-" /\ AllDigits(Tail(str))
    THEN [nan |-> FALSE, value |-> 0 - DecimalValue(Tail(str), Len(str) - 1)]
  ELSE [nan |-> TRUE, value |-> 0]

\* coerceWait that takes '' for 0, as Number does.
coerceWaitEmptyAsZero(optarg) ==
  IF optarg.type = "true" THEN [thrown |-> FALSE, value |-> Infinity]
  ELSE LET val == Number(optarg.chars)
       IN IF val.nan \/ val.value < 0 THEN [thrown |-> TRUE, value |-> 0]
          ELSE [thrown |-> FALSE, value |-> val.value]

\* coerceWait(optarg): Infinity for true; the number of a string, and an
\* InvalidOptionArgumentError for '', for NaN and for a negative number.
coerceWait(optarg) ==
  IF optarg.type = "true" THEN [thrown |-> FALSE, value |-> Infinity]
  ELSE LET val == Number(optarg.chars)
       IN IF optarg.chars = <<>> \/ val.nan THEN [thrown |-> TRUE, value |-> 0]
          ELSE IF val.value < 0 THEN [thrown |-> TRUE, value |-> 0]
          ELSE [thrown |-> FALSE, value |-> val.value]

\* command.opts().wait after command.parse(args), for the option
\* '-w, --wait [seconds]' with coerceWait as its parser: undefined without
\* the flag; true for the flag without a value (Commander does not call the
\* parser); the parser's value for --wait=V and --wait V.  The parse fails
\* when the parser throws, and when V follows as an argument of its own and
\* starts with '-' (Commander takes it for an unknown option).
ParseWait(w) ==
  IF w.form = "absent" THEN [error |-> FALSE, type |-> "undefined", value |-> 0]
  ELSE IF w.form = "flag" THEN [error |-> FALSE, type |-> "true", value |-> 0]
  ELSE IF w.form = "separate" /\ w.chars # <<>> /\ w.chars[1] = "-"
    THEN [error |-> TRUE, type |-> "undefined", value |-> 0]
  ELSE LET r == coerceWait([type |-> "string", chars |-> w.chars])
       IN IF r.thrown THEN [error |-> TRUE, type |-> "undefined", value |-> 0]
          ELSE [error |-> FALSE, type |-> "number", value |-> r.value]

\* maxTotalMs with the seconds of --wait taken for milliseconds.
maxTotalMsUnscaled(wait, waitAll) ==
  IF wait.type = "number" THEN Num(wait.value)
  ELSE IF wait.type = "true" \/ waitAll THEN Num(Infinity)
  ELSE Undefined

\* const maxTotalMs
maxTotalMs(wait, waitAll) ==
  IF wait.type = "number" THEN Num(wait.value * 1000)
  ELSE IF wait.type = "true" \/ waitAll THEN Num(Infinity)
  ELSE Undefined

\* const useColor, of argOpts.color
useColor(color) ==
  IF color = "never" THEN "false"
  ELSE IF color = "always" \/ color = "true" THEN "true"
  ELSE "undefined"

\* The --wait arguments of the model.
WaitStrings ==
  {<<"0">>, <<"3">>, <<"5">>, <<"6", "0">>, <<>>, <<"n", "o", "p", "e">>,
   <<"-", "1">>}

WaitArgs ==
  {[form |-> "absent", chars |-> <<>>], [form |-> "flag", chars |-> <<>>]}
  \cup {[form |-> "attached", chars |-> c] : c \in WaitStrings}
  \cup {[form |-> "separate", chars |-> <<"-", "1">>]}

NoArgs ==
  [typesOk |-> TRUE, flag |-> "none",
   wait |-> [form |-> "absent", chars |-> <<>>], waitAll |-> FALSE,
   verbose |-> 0, quiet |-> 0, color |-> "undefined"]

\* What hubCiStatusMain can be called with: arguments of an invalid type;
\* --help or --version; the wait flags; --wait with -vv; or the verbosity
\* and colour flags without a wait flag.
ArgsChoices ==
  {[NoArgs EXCEPT !.typesOk = FALSE]}
  \cup {[NoArgs EXCEPT !.flag = f] : f \in {"help", "version"}}
  \cup [typesOk : {TRUE}, flag : {"none"}, wait : WaitArgs, waitAll : BOOLEAN,
        verbose : {0}, quiet : {0}, color : {"undefined"}]
  \cup [typesOk : {TRUE}, flag : {"none"},
        wait : {[form |-> "flag", chars |-> <<>>],
                [form |-> "attached", chars |-> <<"5">>],
                [form |-> "attached", chars |-> <<"6", "0">>]},
        waitAll : {FALSE}, verbose : {2}, quiet : {0}, color : {"undefined"}]
  \cup [typesOk : {TRUE}, flag : {"none"}, wait : {NoArgs.wait},
        waitAll : {FALSE}, verbose : 0..2, quiet : 0..1,
        color : {"undefined", "always", "never"}]

CliIdle ==
  /\ cpc = "idle"
  /\ cargs = NoArgs
  /\ gcsCalls = <<>>
  /\ cexit = -1
  /\ cerror = "none"

CliInit ==
  /\ cpc = "start"
  /\ cargs \in ArgsChoices
  /\ gcsCalls = <<>>
  /\ cexit = -1
  /\ cerror = "none"

\* A write() to a stream.
Line(kind, text) == [kind |-> kind, text |-> text, lines |-> <<>>]

\* hubCiStatus (index.js, the module that cli.js requires) up to its first
\* await: verbosity = Number(verbosity) || 0, and getProjectName and
\* resolveCommit are started.
HubCalled(o) ==
  /\ ooptions' = [verbosity |-> Num(o.verbosity), useColor |-> o.useColor,
                  isTTY |-> FALSE, wait |-> o.wait, waitAll |-> o.waitAll]
  /\ opc' = "resolving"
  /\ identity' = [project |-> "pending", commit |-> "pending"]

\* hubCiStatusMain(args, options) up to its first await, or to its return:
\* the types are checked, the command line is parsed, and hubCiStatus is
\* called.
MainCall ==
  /\ cpc = "start"
  /\ LET wait == ParseWait(cargs.wait)
         verbosity == cargs.verbose - cargs.quiet
         gcsOptions ==
           [useColor |-> useColor(cargs.color), verbosity |-> verbosity,
            wait |-> maxTotalMs(wait, cargs.waitAll),
            waitAll |-> cargs.waitAll]
     IN IF ~cargs.typesOk
          THEN /\ cpc' = "rejected"
               /\ cerror' = "TypeError"
               /\ UNCHANGED <<gcsCalls, cexit, orchVars>>
        ELSE IF wait.error
          THEN \* Commander has written its message to stderr
               /\ cpc' = "returned"
               /\ cexit' = 1
               /\ stderr' = Append(stderr, Line("commander", "error"))
               /\ UNCHANGED <<gcsCalls, cerror, opc, ooptions, identity,
                              statusOptions, fetched, statuses, state, stdout,
                              exitCode, oerror>>
        ELSE IF cargs.flag = "help"
          THEN \* Commander has written the help to stdout
               /\ cpc' = "returned"
               /\ cexit' = 0
               /\ stdout' = Append(stdout, Line("commander", "help"))
               /\ UNCHANGED <<gcsCalls, cerror, opc, ooptions, identity,
                              statusOptions, fetched, statuses, state, stderr,
                              exitCode, oerror>>
        ELSE IF cargs.flag = "version"
          THEN /\ cpc' = "awaitVersion"
               /\ UNCHANGED <<gcsCalls, cexit, cerror, orchVars>>
        ELSE /\ cpc' = "awaitGcs"
             /\ gcsCalls' = Append(gcsCalls, gcsOptions)
             /\ HubCalled(gcsOptions)
             /\ UNCHANGED <<cexit, cerror, statusOptions, fetched, statuses,
                            state, stdout, stderr, exitCode, oerror>>
  /\ UNCHANGED cargs
  /\ UNCHANGED <<retryVars, pureVars, fetchVars>>

\* getPackageJson() of --version resolves: the version is written.
VersionResolves ==
  /\ cpc = "awaitVersion"
  /\ cpc' = "returned"
  /\ cexit' = 0
  /\ stdout' = Append(stdout, Line("version", ""))
  /\ UNCHANGED <<cargs, gcsCalls, cerror>>
  /\ UNCHANGED <<opc, ooptions, identity, statusOptions, fetched, statuses,
                 state, stderr, exitCode, oerror>>
  /\ UNCHANGED <<retryVars, pureVars, fetchVars>>

\* getPackageJson() of --version rejects: the await is in no try block.
VersionRejects ==
  /\ cpc = "awaitVersion"
  /\ cpc' = "rejected"
  /\ cerror' = "PackageJsonError"
  /\ UNCHANGED <<cargs, gcsCalls, cexit>>
  /\ UNCHANGED <<retryVars, pureVars, orchVars, fetchVars>>

\* HubStatusOptions that leaves waitAll out of statusOptions.
HubStatusOptionsNoWaitAll(o) ==
  [octokit |-> FALSE,
   octokitOptions |-> NoOctokitOptions,
   retry |-> IF o.wait.given
               THEN [given |-> TRUE,
                     options |-> [DEFAULT_OPTIONS EXCEPT
                                    !.maxTotalMs = o.wait.value]]
               ELSE NoRetry,
   debug |-> Gt(o.verbosity, 1),
   waitAll |-> FALSE]

\* const statusOptions of hubCiStatus: retry is options.wait, and debug is
\* set when verbosity > 1.  The client is left to fetchCiStatus, which gets
\* octokitOptions with auth only.
HubStatusOptions(o) ==
  [octokit |-> FALSE,
   octokitOptions |-> NoOctokitOptions,
   retry |-> IF o.wait.given
               THEN [given |-> TRUE,
                     options |-> [DEFAULT_OPTIONS EXCEPT
                                    !.maxTotalMs = o.wait.value]]
               ELSE NoRetry,
   debug |-> Gt(o.verbosity, 1),
   waitAll |-> o.waitAll]

\* { owner, repo, ref }: what getProjectName and resolveCommit resolved with.
HubApiArgs == [owner |-> "kevinoid", repo |-> "hub-ci-status", ref |-> "HEAD"]

\* One of the two promises of hubCiStatus's Promise.all resolves; when it is
\* the second, fetchCiStatus is called with statusOptions.
HubIdentityResolves(which) ==
  /\ cpc = "awaitGcs"
  /\ identity[which] = "pending"
  /\ identity' = [identity EXCEPT ![which] = "resolved"]
  /\ IF opc = "resolving" /\ \A w \in {"project", "commit"} : identity'[w] = "resolved"
       THEN /\ opc' = "fetching"
            /\ statusOptions' = HubStatusOptions(ooptions)
            /\ foptions' = statusOptions'
            /\ apiArgs' = HubApiArgs
            /\ fpc' = "start"
            /\ options' = foptions'.retry.options
            /\ clock' = StartTime
            /\ pc' = "init"
            /\ UNCHANGED <<operation, optionsArg, deadline, waitIterator,
                           waitResult, settled, opCalls, opResults, sleeps,
                           resolvedAt, calledAt, nextCalls, returnCalls,
                           shouldRetryCalls, sleepsDone, thrown>>
            /\ UNCHANGED <<agent, octokit, requests, statusData, checksData,
                           statusCalls, checksCalls, requestAgents, requestArgs, counters,
                           flog, fresult, ferror>>
       ELSE UNCHANGED <<opc, statusOptions, retryVars, fetchVars>>
  /\ UNCHANGED <<ooptions, fetched, statuses, state, stdout, stderr, exitCode,
                 oerror>>
  /\ UNCHANGED <<pureVars, cliVars>>

HubProjectResolves == HubIdentityResolves("project")

HubCommitResolves == HubIdentityResolves("commit")

\* One of the two promises rejects: hubCiStatus rejects with the first error.
HubIdentityRejects(which) ==
  /\ cpc = "awaitGcs"
  /\ identity[which] = "pending"
  /\ identity' = [identity EXCEPT ![which] = "rejected"]
  /\ IF opc = "resolving"
       THEN /\ opc' = "rejected"
            /\ oerror' = which
       ELSE UNCHANGED <<opc, oerror>>
  /\ UNCHANGED <<ooptions, statusOptions, fetched, statuses, state, stdout,
                 stderr, exitCode>>
  /\ UNCHANGED <<retryVars, pureVars, fetchVars, cliVars>>

HubProjectRejects == HubIdentityRejects("project")

HubCommitRejects == HubIdentityRejects("commit")

\* fetchCiStatus has resolved: hubCiStatus merges the records, computes and
\* prints the state, and returns its exit code.
HubFetchResolves ==
  /\ opc = "fetching"
  /\ fpc = "resolved"
  /\ fetched' = fresult
  /\ statuses' = MergeStatuses(fresult)
  /\ state' = getState(statuses')
  /\ stdout' = IF Prints(ooptions)
                 THEN Append(stdout, Written(ooptions, statuses', state'))
                 ELSE stdout
  /\ exitCode' = stateToExitCode(state')
  /\ opc' = "returned"
  /\ UNCHANGED <<ooptions, identity, statusOptions, stderr, oerror>>
  /\ UNCHANGED <<retryVars, pureVars, fetchVars, cliVars>>

\* fetchCiStatus has rejected, and hubCiStatus with it.
HubFetchRejects ==
  /\ opc = "fetching"
  /\ fpc = "rejected"
  /\ opc' = "rejected"
  /\ oerror' = ferror
  /\ UNCHANGED <<ooptions, identity, statusOptions, fetched, statuses, state,
                 stdout, stderr, exitCode>>
  /\ UNCHANGED <<retryVars, pureVars, fetchVars, cliVars>>

\* The value hubCiStatusMain returns once hubCiStatus has resolved with
\* code: await gcs(...); return 0;
MainReturn(code) == 0

\* hubCiStatus has resolved: hubCiStatusMain returns.
MainGcsResolves ==
  /\ cpc = "awaitGcs"
  /\ opc = "returned"
  /\ cpc' = "returned"
  /\ cexit' = MainReturn(exitCode)
  /\ UNCHANGED <<cargs, gcsCalls, cerror>>
  /\ UNCHANGED <<retryVars, pureVars, orchVars, fetchVars>>

\* hubCiStatus has rejected: the error (its stack when verbosity > 1) is
\* written to stderr, and hubCiStatusMain returns 1.
MainGcsRejects ==
  /\ cpc = "awaitGcs"
  /\ opc = "rejected"
  /\ cpc' = "returned"
  /\ cexit' = 1
  /\ stderr' = Append(stderr,
                      Line(IF cargs.verbose - cargs.quiet > 1 THEN "stack"
                           ELSE "error", oerror))
  /\ UNCHANGED <<cargs, gcsCalls, cerror>>
  /\ UNCHANGED <<opc, ooptions, identity, statusOptions, fetched, statuses,
                 state, stdout, exitCode, oerror>>
  /\ UNCHANGED <<retryVars, pureVars, fetchVars>>

CliNext ==
  \/ MainCall
  \/ VersionResolves
  \/ VersionRejects
  \/ HubProjectResolves
  \/ HubCommitResolves
  \/ HubProjectRejects
  \/ HubCommitRejects
  \/ HubFetchResolves
  \/ HubFetchRejects
  \/ MainGcsResolves
  \/ MainGcsRejects
  \/ FetchCall
  \/ PackageJsonResolves
  \/ PackageJsonRejects
  \/ StatusResolves
  \/ ChecksResolves
  \/ StatusRejects
  \/ ChecksRejects
  \/ FetchSleepResolves
  \/ FetchSleepRejects

(***************************************************************************)
(* Properties.                                                             *)
(***************************************************************************)

\* The severity order, least severe first.
SeverityOrder ==
  <<"neutral", "success", "pending", "cancelled", "timed_out",
    "action_required", "failure", "error">>

Vocabulary == {SeverityOrder[i] : i \in 1..Len(SeverityOrder)}

Rank(s) == CHOOSE i \in 1..Len(SeverityOrder) : SeverityOrder[i] = s

StatesOf(list) == {list[i].state : i \in 1..Len(list)}

\* The rearrangements of a list.
Rearrangements(list) ==
  {[i \in 1..Len(list) |-> list[f[i]]] : f \in Permutations(1..Len(list))}

Last(seq) == seq[Len(seq)]

\* C1: getState returns the state of highest rank, in the order neutral <
\* success < pending < cancelled < timed_out < action_required < failure <
\* error, that occurs among the records, and returns the same for every
\* rearrangement of the list.
C1_GetStateHighestRank ==
  (fn = "getState" /\ ret.set) =>
    /\ (StatesOf(arg) \cap Vocabulary # {}) =>
         /\ ret.value \in StatesOf(arg) \cap Vocabulary
         /\ \A s \in StatesOf(arg) \cap Vocabulary : Rank(s) <= Rank(ret.value)
    /\ \A list \in Rearrangements(arg) : getState(list) = ret.value

\* getState was given three records with the most severe in the middle.
C1_Witness ==
  /\ fn = "getState" /\ ret.set
  /\ Len(arg) = 3
  /\ arg[1].state = "success" /\ arg[2].state = "failure"
  /\ arg[3].state = "pending"
  /\ ret.value = "failure"

\* C2: stateToExitCode maps neutral and success to 0, cancelled, timed_out,
\* action_required, failure and error to 1, pending to 2, and every other
\* value, the empty string and unknown names included, to 3.
C2_ExitCodes ==
  (fn = "stateToExitCode" /\ ret.set) =>
    /\ (arg \in {"neutral", "success"}) <=> (ret.value = 0)
    /\ (arg \in {"cancelled", "timed_out", "action_required", "failure", "error"})
         <=> (ret.value = 1)
    /\ (arg = "pending") <=> (ret.value = 2)
    /\ (arg \notin Vocabulary) <=> (ret.value = 3)

\* stateToExitCode was given a name outside the vocabulary.
C2_Witness ==
  fn = "stateToExitCode" /\ ret.set /\ arg = "test123" /\ ret.value = 3

\* C3: getState returns the empty string when the list is empty or every
\* state is outside the vocabulary; and when both fetched collections are
\* empty, githubCiStatus prints 'no status' (unless the caller asked for
\* quiet output with a negative verbosity) and returns exit code 3.
C3_NoStatus ==
  (opc = "returned") =>
    /\ (StatesOf(statuses) \cap Vocabulary = {}) => state = ""
    /\ (fetched.statuses = <<>> /\ fetched.check_runs = <<>>) =>
         /\ exitCode = 3
         /\ ~(ooptions.verbosity.given /\ ooptions.verbosity.value < 0) =>
              (Len(stdout) = 1 /\ stdout[1].kind = "no status")

\* C4: checkRunToStatus yields 'pending' for a check run whose status is not
\* 'completed', whatever its conclusion, and the conclusion exactly when the
\* status is 'completed'; name becomes context and html_url target_url.
C4_CheckRunToStatus ==
  (fn = "checkRunToStatus" /\ ret.set) =>
    /\ (arg.status # "completed") => ret.value.state = "pending"
    /\ (arg.status = "completed") <=> (ret.value.state = arg.conclusion)
    /\ ret.value.context = arg.name
    /\ ret.value.target_url = arg.html_url

\* checkRunToStatus was given a run in progress that carries a conclusion.
C4_Witness ==
  /\ fn = "checkRunToStatus" /\ ret.set
  /\ arg.status = "in_progress" /\ arg.conclusion = "failure"
  /\ ret.value.state = "pending"

\* C5: if shouldRetry returns false for the first result, retryAsync invokes
\* operation exactly once, never sleeps, and resolves with that result,
\* whatever waitMs and maxTotalMs are.
C5_StopsAfterFirst ==
  (Len(opResults) >= 1 /\ ~ShouldRetry(opResults[1])) =>
    /\ pc = "resolved"
    /\ settled = opResults[1]
    /\ opCalls = 1
    /\ sleeps = <<>>

\* The first result was not retry-worthy although others would have been,
\* and there was budget and a wait value to retry with.
C5_Witness ==
  /\ pc = "resolved" /\ opCalls = 1 /\ settled = "c"
  /\ options.shouldRetry = {"a", "b"}
  /\ options.maxTotalMs = Infinity
  /\ options.waitMs.type = "number"

\* C6 as claimed: with maxTotalMs = M >= minWaitMs and a constant waitMs = w
\* > M, after a retry-worthy first result the engine sleeps for exactly M.
C6_SleepsExactlyM ==
  (/\ options.waitMs.type = "number"
   /\ IsFinite(options.maxTotalMs)
   /\ options.waitMs.value > options.maxTotalMs
   /\ options.maxTotalMs >= options.minWaitMs
   /\ Len(opResults) >= 1 /\ ShouldRetry(opResults[1])) =>
    (Len(sleeps) >= 1 /\ sleeps[1] = options.maxTotalMs)

\* C6, amended: with maxTotalMs = M and a constant waitMs = w > M, every
\* sleep is for exactly the time that remains until the deadline when the
\* result is evaluated (at least minWaitMs, at most M); after a retry-worthy
\* first result there is such a sleep if and only if that remaining time is
\* at least minWaitMs, and it is M when the first invocation took no time.
C6_SleepsRemaining ==
  (/\ options.waitMs.type = "number"
   /\ IsFinite(options.maxTotalMs)
   /\ options.waitMs.value > options.maxTotalMs) =>
    /\ \A i \in 1..Len(sleeps) :
         /\ sleeps[i] = calledAt + options.maxTotalMs - resolvedAt[i]
         /\ sleeps[i] >= options.minWaitMs
         /\ sleeps[i] <= options.maxTotalMs
    /\ (Len(opResults) >= 1 /\ ShouldRetry(opResults[1])) =>
         /\ (Len(sleeps) >= 1) <=>
              (calledAt + options.maxTotalMs - resolvedAt[1] >= options.minWaitMs)
         /\ (resolvedAt[1] = calledAt /\ options.maxTotalMs >= options.minWaitMs)
              => sleeps[1] = options.maxTotalMs

\* A first invocation that took time was followed by a sleep shorter than
\* both waitMs and maxTotalMs.
C6_Witness ==
  /\ options.waitMs.type = "number"
  /\ options.maxTotalMs = 2 /\ options.waitMs.value = 3
  /\ Len(sleeps) >= 1 /\ sleeps[1] = 1
  /\ resolvedAt[1] = calledAt + 1

\* C7: if maxTotalMs < minWaitMs, a call of retryAsync (with a valid waitMs)
\* never sleeps and invokes operation exactly once, even when every result
\* is retry-worthy.
C7_NoWaitBelowMinWait ==
  (/\ options.maxTotalMs < options.minWaitMs
   /\ pc # "init"
   /\ settled # "TypeError") =>
    /\ opCalls = 1
    /\ sleeps = <<>>
    /\ pc # "awaitSleep"

\* A call with maxTotalMs < minWaitMs resolved with a retry-worthy result.
C7_Witness ==
  /\ options.maxTotalMs = 1 /\ options.minWaitMs = 2
  /\ options.shouldRetry = {"a", "b"}
  /\ options.waitMs.type = "number"
  /\ pc = "resolved" /\ settled = "a"

\* C8: the deadline is the time of the call plus maxTotalMs; and after a
\* retry-worthy result, if the time remaining until the deadline is less than
\* minWaitMs, retryAsync resolves with the result of the most recent
\* invocation without sleeping, without invoking operation again and without
\* drawing a value from the wait sequence.
C8_BudgetExhausted ==
  /\ (pc # "init" /\ IsFinite(options.maxTotalMs)) =>
       deadline = calledAt + options.maxTotalMs
  /\ (/\ pc \in {"resolved", "awaitSleep"}
      /\ ShouldRetry(Last(opResults))
      /\ IsFinite(options.maxTotalMs)
      /\ calledAt + options.maxTotalMs - Last(resolvedAt) < options.minWaitMs) =>
       /\ pc = "resolved"
       /\ settled = Last(opResults)
       /\ opCalls = Len(opResults)
       /\ Len(sleeps) = Len(opResults) - 1
       /\ nextCalls = Len(opResults) - 1

\* After one sleep the second result was retry-worthy and too little time
\* remained: the call resolved with the second result.
C8_Witness ==
  /\ pc = "resolved"
  /\ opResults = <<"a", "b">>
  /\ settled = "b"
  /\ Len(sleeps) = 1 /\ nextCalls = 1
  /\ options.waitMs.type = "iterable" /\ Len(options.waitMs.items) = 2
  /\ deadline - clock < options.minWaitMs

\* C9: when the wait iterator reports done after a retry-worthy result,
\* retryAsync resolves with that result without sleeping or invoking
\* operation again, and return() is never called on the iterator.
C9_IteratorDone ==
  (waitResult.set /\ waitResult.done) =>
    /\ pc = "resolved"
    /\ settled = Last(opResults)
    /\ ShouldRetry(settled)
    /\ opCalls = Len(opResults)
    /\ Len(sleeps) = Len(opResults) - 1
    /\ returnCalls = 0

\* An iterator with a return method was used up after two sleeps.
C9_Witness ==
  /\ waitResult.set /\ waitResult.done
  /\ waitIterator.hasReturn
  /\ Len(sleeps) = 2
  /\ pc = "resolved"

\* Has the call settled after its arguments were accepted?
Settled == pc \in {"resolved", "rejected"} /\ settled # "TypeError"

\* C10 as claimed: whenever retryAsync settles while its wait iterator (one
\* with a return method) has not reported done, return() has been called
\* exactly once.
C10_ReturnOnEveryEarlyExit ==
  (Settled /\ waitIterator.hasReturn /\ ~(waitResult.set /\ waitResult.done)) =>
    returnCalls = 1

\* C10, amended: return() is called only as retryAsync settles; it has then
\* been called exactly once if at least one value was drawn from the
\* iterator, the last draw did not report done and the iterator has a
\* return method, and it has not been called otherwise (in particular when
\* the call settles before any value was drawn).
C10_ReturnAfterDraw ==
  /\ ~Settled => returnCalls = 0
  /\ Settled =>
       returnCalls =
         IF nextCalls >= 1 /\ ~waitResult.done /\ waitIterator.hasReturn
           THEN 1 ELSE 0

\* The operation rejected on the second attempt, after one value was drawn
\* from an unfinished iterator: return() was called once.
C10_Witness ==
  /\ pc = "rejected" /\ settled = "OperationError"
  /\ opCalls = 2 /\ nextCalls = 1
  /\ options.waitMs.type = "iterable" /\ waitIterator.hasReturn
  /\ returnCalls = 1

\* C11: if operation throws or rejects on any attempt, retryAsync rejects
\* with that same error, and after the failing invocation there is no
\* further invocation, no call of shouldRetry and no sleep; the result of an
\* earlier attempt is never returned in place of the error.
C11_RejectionPropagates ==
  (thrown # "none") =>
    /\ pc = "rejected"
    /\ settled = thrown
    /\ settled \notin Results
    /\ opCalls = Len(opResults) + 1
    /\ shouldRetryCalls = Len(opResults)
    /\ Len(sleeps) = Len(opResults)
    /\ sleepsDone = Len(sleeps)

\* operation rejected on its third invocation, after two results and two
\* sleeps.
C11_Witness ==
  /\ thrown = "NetworkError" /\ pc = "rejected"
  /\ opCalls = 3 /\ Len(opResults) = 2 /\ Len(sleeps) = 2

\* The invocations of operation that have neither resolved nor rejected.
InFlight == opCalls - Len(opResults) - (IF thrown = "none" THEN 0 ELSE 1)

\* C12: at most one invocation of operation is in flight at any time, and
\* invocation k+1 has started only if invocation k resolved, shouldRetry
\* evaluated its result and the sleep that followed has completed: it starts
\* at the time invocation k resolved plus the delay of that sleep.
C12_OneInFlight ==
  /\ InFlight \in {0, 1}
  /\ (InFlight = 1) <=> (pc = "awaitOp")
  /\ (opCalls >= 2) =>
       /\ Len(opResults) >= opCalls - 1
       /\ shouldRetryCalls >= opCalls - 1
       /\ sleepsDone = opCalls - 1
  /\ (pc = "awaitOp" /\ opCalls >= 2) =>
       clock = resolvedAt[opCalls - 1] + sleeps[opCalls - 1]

\* The third invocation is in flight, after two results and two sleeps of
\* different lengths.
C12_Witness ==
  /\ pc = "awaitOp" /\ opCalls = 3
  /\ Len(opResults) = 2 /\ sleepsDone = 2
  /\ sleeps[1] # sleeps[2] /\ sleeps[2] > 0

\* C13: retryAsync fails with TypeError if operation is not invocable, if the
\* options argument is given but is not an object, or if waitMs is neither a
\* number nor an iterable; for an invalid waitMs no invocation of operation
\* is made.
C13_TypeErrors ==
  (pc # "init") =>
    /\ (\/ operation # "function"
        \/ optionsArg \in {"null", "primitive"}
        \/ ~ValidWaitMs(options.waitMs)) =>
         (pc = "rejected" /\ settled = "TypeError")
    /\ ~ValidWaitMs(options.waitMs) => opCalls = 0

\* The statuses of a pair that are pending, and its check runs that are
\* queued or in progress.
PendingStatuses(pair) ==
  {i \in 1..Len(pair.statuses) : pair.statuses[i].state = "pending"}

WaitingCheckRuns(pair) ==
  {i \in 1..Len(pair.check_runs) :
     pair.check_runs[i].status \in {"queued", "in_progress"}}

\* Has the pair a status that is neither pending nor success, or a check run
\* that is not waiting and whose conclusion is neither success nor neutral?
HasFailure(pair) ==
  \/ \E i \in 1..Len(pair.statuses) :
       pair.statuses[i].state \notin {"pending", "success"}
  \/ \E i \in 1..Len(pair.check_runs) :
       /\ pair.check_runs[i].status \notin {"queued", "in_progress"}
       /\ pair.check_runs[i].conclusion \notin {"success", "neutral"}

\* C14: with retries and without waitAll, the retry predicate returns false
\* for every fetched pair that has a failed status or check run, even when
\* other entries are still pending: the call resolves with that pair at once,
\* without a sleep or a further attempt; a pending status with one failed
\* check run is fetched exactly once.
C14_FailFast ==
  (fpc # "start" /\ foptions.retry.given /\ ~foptions.waitAll) =>
    \A k \in 1..Len(opResults) :
      HasFailure(opResults[k]) =>
        /\ ~shouldRetry(opResults[k], FALSE, ZeroCounters).value
        /\ k = Len(opResults)
        /\ fpc = "resolved"
        /\ fresult = opResults[k]
        /\ Len(sleeps) = k - 1
        /\ statusCalls = k /\ checksCalls = k

\* With every default of retry, a pending status and one failed check run
\* were fetched once and returned.
C14_Witness ==
  /\ fpc = "resolved"
  /\ foptions.retry.given /\ ~foptions.waitAll
  /\ options = DEFAULT_OPTIONS
  /\ opResults = << [statuses |-> <<Status("pending")>>,
                    check_runs |-> <<CheckRun("completed", "failure")>>] >>
  /\ statusCalls = 1 /\ checksCalls = 1 /\ sleeps = <<>>

\* C15: with waitAll, the retry predicate returns false if and only if the
\* pair has no pending status, no queued or in_progress check run, and the
\* two collections are not both empty; failed entries make no difference.
C15_WaitAllPredicate ==
  (fn = "shouldRetry" /\ ret.set /\ arg.waitAll) =>
    (~ret.value.value <=>
       /\ PendingStatuses(arg.pair) = {}
       /\ WaitingCheckRuns(arg.pair) = {}
       /\ ~(arg.pair.statuses = <<>> /\ arg.pair.check_runs = <<>>))

\* With waitAll, a failed status followed by a pending one made the
\* predicate return true.
C15_Witness ==
  /\ fn = "shouldRetry" /\ ret.set /\ arg.waitAll
  /\ Len(arg.pair.statuses) = 2
  /\ arg.pair.statuses[1].state = "failure"
  /\ arg.pair.statuses[2].state = "pending"
  /\ ret.value.value

\* Was every pair fetched so far empty?
AllEmpty == \A k \in 1..Len(opResults) : opResults[k] = NoPair

\* C16: when every attempt so far returned no status and no check run, the
\* predicate returned true each time, whatever waitAll is: every attempt but
\* the last was followed by a sleep, and the call has resolved only if the
\* time left until the deadline was less than minWaitMs or the wait sequence
\* had ended.
C16_EmptyKeepsPolling ==
  (fpc # "start" /\ foptions.retry.given /\ Len(opResults) >= 1 /\ AllEmpty) =>
    /\ shouldRetry(NoPair, foptions.waitAll, counters).value
    /\ Len(sleeps) >= Len(opResults) - 1
    /\ (fpc = "resolved") =>
         /\ fresult = NoPair
         /\ \/ Minus(deadline, Last(resolvedAt)) < options.minWaitMs
            \/ waitResult.set /\ waitResult.done
    /\ (fpc = "polling" /\ pc = "awaitSleep") => Len(sleeps) = Len(opResults)

\* With waitAll, two empty pairs were fetched, one sleep apart, before the
\* deadline ended the call.
C16_Witness ==
  /\ fpc = "resolved" /\ foptions.waitAll
  /\ Len(opResults) = 2 /\ AllEmpty
  /\ IsFinite(deadline)
  /\ Len(sleeps) = 1

\* C17: when options.retry is falsy or absent, each of the two remote
\* operations is called exactly once, the retry predicate is never evaluated,
\* there is no sleep, and the call resolves with that one pair, pending or
\* not.
C17_SingleAttempt ==
  (~foptions.retry.given) =>
    /\ pc = "init"
    /\ shouldRetryCalls = 0 /\ counters = ZeroCounters
    /\ sleeps = <<>> /\ flog = <<>>
    /\ (fpc \in {"single", "resolved"}) => (statusCalls = 1 /\ checksCalls = 1)
    /\ statusCalls <= 1 /\ checksCalls <= 1
    /\ (fpc = "resolved") =>
         fresult = [statuses |-> statusData, check_runs |-> checksData]

\* Without retry, a pending status and a queued check run were returned
\* after one call of each operation.
C17_Witness ==
  /\ ~foptions.retry.given /\ fpc = "resolved"
  /\ fresult = [statuses |-> <<Status("pending")>>,
                check_runs |-> <<CheckRun("queued", "null")>>]
  /\ statusCalls = 1 /\ checksCalls = 1

\* C18: the two requests of an attempt are started together; an attempt
\* yields its pair only when both have resolved; and as soon as either
\* rejects, the call is rejected with the error of the first rejection,
\* whatever the state of the other request, and no further attempt is made.
C18_ConcurrentFetches ==
  /\ statusCalls = checksCalls
  /\ (requests.status = "idle") <=> (requests.checks = "idle")
  /\ (fpc = "resolved" \/ (fpc = "polling" /\ pc = "awaitSleep")) =>
       (requests.status = "resolved" /\ requests.checks = "resolved")
  /\ (fpc = "polling") => Len(opResults) \in {statusCalls - 1, statusCalls}
  /\ (requests.status = "rejected" \/ requests.checks = "rejected") =>
       /\ fpc = "rejected"
       /\ ferror \in {"StatusError", "ChecksError"}
       /\ (ferror = "StatusError") => requests.status = "rejected"
       /\ (ferror = "ChecksError") => requests.checks = "rejected"
       /\ (requests.status # "rejected") => ferror = "ChecksError"
       /\ (requests.checks # "rejected") => ferror = "StatusError"
       /\ statusCalls = IF foptions.retry.given THEN Len(opResults) + 1 ELSE 1

\* In the second attempt the status request rejected while the check-run
\* request was pending: the call is rejected with its error.
C18_Witness ==
  /\ fpc = "rejected" /\ ferror = "StatusError"
  /\ requests.status = "rejected" /\ requests.checks = "pending"
  /\ statusCalls = 2 /\ Len(opResults) = 1

\* C19: whenever fetchCiStatus has made a keep-alive agent, the agent has
\* been destroyed exactly once by the time the call concludes, however it
\* concludes, and every request of the call was made with it.
C19_AgentDestroyedOnce ==
  (agent.created > 0) =>
    /\ agent.created = 1
    /\ requestAgents \subseteq {"own"}
    /\ (fpc \in {"resolved", "rejected"}) => agent.destroyed = 1
    /\ (fpc \notin {"resolved", "rejected"}) => agent.destroyed = 0

\* The calls of options.debug, and of the sleep function, in the log.
DebugLines == SelectSeq(flog, LAMBDA e : e.kind = "debug")

SleepsStarted == SelectSeq(flog, LAMBDA e : e.kind = "setTimeout")

\* C20: with options.debug, one debug line is written for each sleep, right
\* before the sleep is started, and it reports the delay of that sleep (the
\* wait clamped to the time left until the deadline) in seconds; the number of
\* debug lines always equals the number of sleeps started, and is 0 in a call
\* that never sleeps.  Without options.debug no line is written.
C20_DebugLinePerSleep ==
  /\ Len(SleepsStarted) = Len(sleeps)
  /\ \A i \in 1..Len(sleeps) : SleepsStarted[i].delay = sleeps[i]
  /\ ~foptions.debug => DebugLines = <<>>
  /\ foptions.debug =>
       /\ Len(DebugLines) = Len(sleeps)
       /\ \A i \in 1..Len(sleeps) :
            /\ flog[2 * i - 1].kind = "debug"
            /\ flog[2 * i].kind = "setTimeout"
            /\ 1000 * flog[2 * i - 1].seconds.whole
                 + flog[2 * i - 1].seconds.millis = sleeps[i]
            /\ flog[2 * i - 1].seconds.millis \in 0..999
            /\ sleeps[i] <= Minus(deadline, resolvedAt[i])

\* With options.debug, a sleep shorter than the wait (the deadline being
\* near) was announced and started.
C20_Witness ==
  /\ foptions.debug
  /\ Len(flog) = 2 /\ flog[1].kind = "debug" /\ flog[2].kind = "setTimeout"
  /\ options.waitMs.type = "number"
  /\ flog[2].delay < options.waitMs.value
  /\ flog[1].seconds = [whole |-> 0, millis |-> flog[2].delay]

\* Does a debug line describe the pair?  'any CI status or check' exactly
\* for two empty collections; otherwise the pending statuses out of all
\* statuses, shown exactly when there are some, the queued or in_progress
\* check runs out of all check runs likewise, and ' and ' between the two
\* exactly when both are shown.
Describes(line, pair) ==
  LET w == line.waitingFor
      n == Cardinality(PendingStatuses(pair))
      m == Len(pair.statuses)
      cn == Cardinality(WaitingCheckRuns(pair))
      cm == Len(pair.check_runs)
  IN /\ (w.text = "any CI status or check") <=> (m = 0 /\ cm = 0)
     /\ w.text # ""
     /\ (m # 0 \/ cm # 0) =>
          /\ w.statuses.shown <=> (n > 0)
          /\ w.statuses.shown => (w.statuses.waiting = n /\ w.statuses.of = m)
          /\ w.checks.shown <=> (cn > 0)
          /\ w.checks.shown => (w.checks.waiting = cn /\ w.checks.of = cm)
          /\ (w.text = "CI statuses and checks")
               <=> (w.statuses.shown /\ w.checks.shown)
          /\ (w.text = "CI statuses")
               <=> (w.statuses.shown /\ ~w.checks.shown)
          /\ (w.text = "checks") <=> (~w.statuses.shown /\ w.checks.shown)

\* C21: every debug line describes the fetch attempt right before it (the
\* i-th line the i-th pair fetched): 'any CI status or check' exactly when
\* that pair has no status and no check run, otherwise 'N/M CI statuses'
\* exactly when N > 0 of its M statuses are pending and 'N/M checks' exactly
\* when N > 0 of its M check runs are queued or in_progress, joined by
\* ' and ' when both appear; the description is never empty and never made
\* of the counts of an older attempt.
C21_DebugLineDescribesAttempt ==
  /\ Len(DebugLines) <= Len(opResults)
  /\ \A i \in 1..Len(DebugLines) : Describes(DebugLines[i], opResults[i])

\* With waitAll, the first line told of 1/2 CI statuses and 1/1 checks and
\* the second, after an attempt that fetched nothing, of any CI status or
\* check.
C21_Witness ==
  /\ foptions.debug /\ Len(DebugLines) = 2
  /\ DebugLines[1].waitingFor.text = "CI statuses and checks"
  /\ DebugLines[1].waitingFor.statuses = [shown |-> TRUE, waiting |-> 1, of |-> 2]
  /\ DebugLines[1].waitingFor.checks = [shown |-> TRUE, waiting |-> 1, of |-> 1]
  /\ opResults[2] = NoPair
  /\ DebugLines[2].waitingFor.text = "any CI status or check"

\* C22: with --wait given without seconds and --wait-all off, hubCiStatus
\* never returns with the aggregated state 'pending', that is with exit
\* code 2: the budget is unlimited, so only a state that is not pending ends
\* the wait.
C22_UnlimitedWaitNeverEndsPending ==
  (/\ cargs.typesOk /\ cargs.flag = "none"
   /\ cargs.wait.form = "flag" /\ ~cargs.waitAll
   /\ opc = "returned")
    => (state # "pending" /\ exitCode # 2)

\* The aggregated state of a fetched pair.
PairState(pair) == getState(MergeStatuses(pair))

\* When the k-th attempt was started: when retryAsync was called, or when
\* the sleep after the attempt before ended.
AttemptStart(k) ==
  IF k = 1 THEN calledAt ELSE resolvedAt[k - 1] + sleeps[k - 1]

\* --wait was given a number of seconds: that number.
WaitSeconds == ParseWait(cargs.wait).value

FiniteWait ==
  /\ cargs.typesOk /\ cargs.flag = "none"
  /\ ~ParseWait(cargs.wait).error
  /\ ParseWait(cargs.wait).type = "number"

\* The times the status may have settled at that the attempts can tell
\* apart: right after an attempt resolved, when an attempt was started, and
\* the deadline.
SettleTimes ==
  {resolvedAt[k] + 1 : k \in 1..Len(resolvedAt)}
    \cup {AttemptStart(k) : k \in 1..Len(resolvedAt)}
    \cup {calledAt + WaitSeconds * 1000}

\* The status was pending at first, settled to success at time s within
\* the budget and stayed so, as far as the attempts saw: every attempt that
\* resolved before s fetched a pending pair, and every attempt started at s
\* or later a successful one.
SettlesAt(s) ==
  /\ opResults # <<>>
  /\ PairState(opResults[1]) = "pending"
  /\ AttemptStart(1) < s
  /\ s <= calledAt + WaitSeconds * 1000
  /\ \A k \in 1..Len(opResults) :
       /\ resolvedAt[k] < s => PairState(opResults[k]) = "pending"
       /\ AttemptStart(k) >= s => PairState(opResults[k]) = "success"

\* 'success' is printed (the state at verbosity 0, the records otherwise),
\* hubCiStatus returns 0, and with debug a line was written.
EndsInSuccess ==
  /\ state = "success" /\ exitCode = 0
  /\ Len(stdout) = 1
  /\ StrictEq(ooptions.verbosity, 0) =>
       stdout[1] = [kind |-> "state", text |-> "success", lines |-> <<>>]
  /\ Gt(ooptions.verbosity, 1) => Len(DebugLines) >= 1

C24_ExitCodeIsOrchestrators ==
  (cpc = "returned" /\ opc = "returned") =>
    /\ exitCode = stateToExitCode(state)
    /\ cexit = exitCode

\* C25: githubCiStatus starts getProjectName and resolveCommit together
\* (while it awaits them neither is unstarted, and either may settle
\* first), and fetchCiStatus is called only after both have resolved; when
\* either rejects, githubCiStatus rejects with the error of the first
\* rejection, fetchCiStatus is never called, and nothing is written to
\* stdout or stderr.
C25_IdentityBeforeFetch ==
  /\ opc = "resolving" =>
       \A w \in {"project", "commit"} : identity[w] \in {"pending", "resolved"}
  /\ (opc \in {"fetching", "returned"} \/ statusOptions # NoStatusOptions
       \/ fetched # NoPair \/ oerror = "fetch") =>
       \A w \in {"project", "commit"} : identity[w] = "resolved"
  /\ (\E w \in {"project", "commit"} : identity[w] = "rejected") =>
       /\ opc = "rejected"
       /\ oerror \in {"project", "commit"} /\ identity[oerror] = "rejected"
       /\ statusOptions = NoStatusOptions /\ fetched = NoPair
       /\ stdout = <<>> /\ stderr = <<>>
       /\ exitCode = -1

\* The project name resolved first; then resolveCommit rejected, and
\* githubCiStatus with its error.
C25_Witness ==
  /\ identity = [project |-> "resolved", commit |-> "rejected"]
  /\ opc = "rejected" /\ oerror = "commit"
  /\ statusOptions = NoStatusOptions /\ stdout = <<>> /\ stderr = <<>>

\* What hubCiStatusMain does when hubCiStatus has rejected: the error, or
\* its stack when verbosity > 1, is the one line on stderr, nothing is on
\* stdout, and 1 is returned.
RejectionReported ==
  (cpc = "returned" /\ opc = "rejected") =>
    /\ cexit = 1
    /\ stdout = <<>>
    /\ stderr = <<Line(IF cargs.verbose - cargs.quiet > 1 THEN "stack"
                       ELSE "error", oerror)>>

\* C26: when hubCiStatus rejects, hubCiStatusMain writes the error (its
\* stack when verbosity > 1) to stderr and nothing to stdout and resolves
\* with 1; hubCiStatusMain itself rejects only for arguments of invalid
\* type, never for an error at run time.
C26_RejectsOnlyForInvalidTypes ==
  /\ RejectionReported
  /\ cpc = "rejected" => (~cargs.typesOk /\ cerror = "TypeError")

\* The seconds the --wait arguments of the model stand for; the other
\* arguments ('', 'nope' and '-1') are not valid.
SecondsOf ==
  [c \in {<<"0">>, <<"3">>, <<"5">>, <<"6", "0">>} |->
     IF c = <<"0">> THEN 0 ELSE IF c = <<"3">> THEN 3
     ELSE IF c = <<"5">> THEN 5 ELSE 60]

\* C27: once the command line is parsed, --wait N has made hubCiStatusMain
\* call hubCiStatus once with wait.maxTotalMs = N * 1000 (N = 0 included),
\* --wait without a value with Infinity, --wait-all without --wait with
\* Infinity and waitAll true, and neither flag with no wait option and
\* waitAll false; a --wait value that is empty, not a number or negative
\* makes it return 1 without a call of hubCiStatus.
C27_WaitFlags ==
  (cpc # "start" /\ cargs.typesOk /\ cargs.flag = "none") =>
    LET w == cargs.wait
    IN IF w.form \in {"attached", "separate"} /\ w.chars \notin DOMAIN SecondsOf
         THEN /\ gcsCalls = <<>> /\ opc = "idle"
              /\ cpc = "returned" /\ cexit = 1
         ELSE /\ Len(gcsCalls) = 1
              /\ gcsCalls[1].waitAll = cargs.waitAll
              /\ gcsCalls[1].wait =
                   IF w.form \in {"attached", "separate"}
                     THEN Num(SecondsOf[w.chars] * 1000)
                   ELSE IF w.form = "flag" \/ cargs.waitAll THEN Num(Infinity)
                   ELSE Undefined
              /\ ooptions.wait = gcsCalls[1].wait
              /\ ooptions.waitAll = gcsCalls[1].waitAll

\* --wait 0 was passed on as a budget of 0 ms, and --wait-all with it.
C27_Witness ==
  /\ cargs.wait = [form |-> "attached", chars |-> <<"0">>] /\ cargs.waitAll
  /\ gcsCalls # <<>>
  /\ gcsCalls[1].wait = Num(0) /\ gcsCalls[1].waitAll
  /\ cpc = "returned" /\ cexit = 0

\* The exit code the aggregator gives a record on its own.
ExitCodeOf(record) == stateToExitCode(getState(<<record>>))

\* C28: without waitAll, every entry of a fetched pair that stops the retry
\* predicate early (a status that is neither pending nor success, a check
\* run that is neither queued nor in_progress and whose conclusion is
\* neither success nor neutral) makes shouldRetry return false, and is an
\* entry the aggregator gives a failure-class state, with exit code 1.
C28_FailFastIsFailureClass ==
  (fn = "shouldRetry" /\ ret.set /\ ~arg.waitAll) =>
    /\ \A i \in 1..Len(arg.pair.statuses) :
         LET status == arg.pair.statuses[i]
         IN (status.state # "pending" /\ StatusFails(arg.waitAll, status)) =>
              /\ ~ret.value.value
              /\ ExitCodeOf(status) = 1
    /\ \A i \in 1..Len(arg.pair.check_runs) :
         LET checkRun == arg.pair.check_runs[i]
         IN (/\ checkRun.status \notin {"queued", "in_progress"}
             /\ CheckFails(arg.waitAll, checkRun)) =>
              /\ ~ret.value.value
              /\ ExitCodeOf(checkRunToStatus(checkRun)) = 1

RECURSIVE DefaultWait(_)
DefaultWait(i) ==
  IF i = 1 THEN 4000 ELSE Min(2 * DefaultWait(i - 1), 60000)

\* C30: the waits a retryAsync call without waitMs draws, before they are
\* clamped to the deadline, are 4000, 8000, 16000, 32000, 60000, 60000, ...
\* ms: each is twice the one before, and at most 60000; the sequence never
\* ends, and every call starts again at 4000 however many waits the calls
\* before it have drawn.
C30_DefaultWaits ==
  (fn = "waitMs" /\ ret.set) =>
    /\ Len(ret.value) = arg.draws
    /\ \A i \in 1..arg.draws : ret.value[i] = DefaultWait(i)
    /\ arg.draws >= 6 =>
         SubSeq(ret.value, 1, 6) = <<4000, 8000, 16000, 32000, 60000, 60000>>

\* After a call that drew three waits, a call drew 4000, 8000, 16000, 32000,
\* 60000, 60000 and 60000.
C30_Witness ==
  /\ fn = "waitMs" /\ ret.set /\ arg = [earlier |-> 3, draws |-> 7]
  /\ ret.value = <<4000, 8000, 16000, 32000, 60000, 60000, 60000>>

\* Was the k-th attempt followed by a sleep?
Continued(k) == k < Len(opResults) \/ (k = Len(opResults) /\ pc = "awaitSleep")

\* Has the pair an entry that is still waited for, or no entry at all?
StillWaiting(pair) ==
  \/ PendingStatuses(pair) # {} \/ WaitingCheckRuns(pair) # {}
  \/ pair = NoPair

\* C31: hubCiStatus passes the wait option it was called with to
\* fetchCiStatus as retry, and waitAll as waitAll.  So without --wait and
\* --wait-all fetchCiStatus makes a single attempt, without retryAsync; with
\* one of them it polls: an attempt is followed by a sleep only if an entry
\* is still waited for (or there is none), and without --wait-all only if
\* no entry has failed; with --wait-all failed entries are ignored: the
\* call resolves while an entry is still waited for only when the budget is
\* used up.
C31_WaitForwarded ==
  (fpc # "idle" /\ Len(gcsCalls) = 1) =>
    LET o == gcsCalls[1]
        waits == cargs.wait.form # "absent" \/ cargs.waitAll
    IN /\ foptions.retry.given = o.wait.given
       /\ o.wait.given => foptions.retry.options.maxTotalMs = o.wait.value
       /\ foptions.waitAll = o.waitAll
       /\ foptions.retry.given = waits /\ foptions.waitAll = cargs.waitAll
       /\ ~waits =>
            /\ statusCalls <= 1 /\ checksCalls <= 1
            /\ opCalls = 0 /\ sleeps = <<>>
       /\ waits =>
            /\ opCalls = statusCalls /\ opCalls = checksCalls
            /\ \A k \in 1..Len(opResults) :
                 Continued(k) =>
                   /\ StillWaiting(opResults[k])
                   /\ ~cargs.waitAll => ~HasFailure(opResults[k])
            /\ (cargs.waitAll /\ fpc = "resolved"
                  /\ StillWaiting(fresult)) =>
                 Minus(deadline, Last(resolvedAt)) < options.minWaitMs

\* --wait-all: a pending status next to a failed one was followed by a
\* sleep and a second attempt.
C31_Witness ==
  /\ cargs.waitAll /\ cargs.wait.form = "absent"
  /\ foptions.waitAll /\ foptions.retry.options.maxTotalMs = Infinity
  /\ Len(opResults) = 2
  /\ opResults[1].statuses = <<Status("pending"), Status("failure")>>
  /\ Len(sleeps) = 1 /\ statusCalls = 2

\* Retries are requested, the caller passed no client and no agent in the
\* request options (an agent of null is one), and the protocol of the base
\* URL is http: or https: (https: without a base URL).
AgentWanted ==
  /\ foptions.retry.given
  /\ ~foptions.octokit
  /\ foptions.octokitOptions.request # "withAgent"
  /\ foptions.octokitOptions.baseUrl \in {"undefined", "https:", "http:"}

\* C32: fetchCiStatus makes a keep-alive agent exactly when AgentWanted (it
\* has made it once it is past getPackageJson), and only one; in every other
\* case no agent is made and none is destroyed, and only an agent that
\* fetchCiStatus made is ever destroyed, so an agent or a client of the
\* caller's never is: the requests are then made with the caller's client
\* or agent, or with none.
C32_AgentOnlyWhenWanted ==
  /\ agent.created <= 1 /\ agent.destroyed <= agent.created
  /\ agent.created = 1 => AgentWanted
  /\ (/\ AgentWanted
      /\ fpc \notin {"start", "packageJson"}
      /\ ~(fpc = "rejected" /\ ferror = "PackageJsonError")) =>
       agent.created = 1
  /\ ~AgentWanted =>
       /\ agent = [created |-> 0, destroyed |-> 0]
       /\ "own" \notin requestAgents
       /\ foptions.octokit => requestAgents \subseteq {"caller"}

\* With retry and a request object that has no agent, the agent for http:
\* was made, and destroyed when the call resolved.
C32_Witness ==
  /\ fpc = "resolved" /\ foptions.retry.given /\ ~foptions.octokit
  /\ foptions.octokitOptions = [request |-> "withoutAgent", baseUrl |-> "http:"]
  /\ agent = [created |-> 1, destroyed |-> 1]
  /\ requestAgents = {"own"}

\* C33: for every fetched pair, when shouldRetry returns true without
\* waitAll it returns true with waitAll too: waitAll never ends the polling
\* at a pair at which the default goes on.
C33_WaitAllNeverStopsEarlier ==
  (fn = "shouldRetry" /\ ret.set) =>
    /\ (~arg.waitAll /\ ret.value.value) =>
         shouldRetry(arg.pair, TRUE, ZeroCounters).value
    /\ (arg.waitAll /\ ~ret.value.value) =>
         ~shouldRetry(arg.pair, FALSE, ZeroCounters).value

\* Without waitAll, shouldRetry returned true for a pending status and a
\* queued check run.
C33_Witness ==
  /\ fn = "shouldRetry" /\ ret.set /\ ~arg.waitAll /\ ret.value.value
  /\ Len(arg.pair.statuses) = 1 /\ arg.pair.statuses[1].state = "pending"
  /\ Len(arg.pair.check_runs) = 1 /\ arg.pair.check_runs[1].status = "queued"
  /\ shouldRetry(arg.pair, TRUE, ZeroCounters).value

\* C34: what shouldRetry returns for a pair it returns for every
\* rearrangement of the statuses and of the check runs, with waitAll and
\* without: only which entries there are counts, not their order.
C34_OrderIndependent ==
  (fn = "shouldRetry" /\ ret.set) =>
    \A p \in Rearrangements(arg.pair.statuses),
       q \in Rearrangements(arg.pair.check_runs) :
      shouldRetry([statuses |-> p, check_runs |-> q], arg.waitAll,
                  ZeroCounters).value = ret.value.value

\* Without waitAll, a pending status before a failed one made shouldRetry
\* return false, as the failed one before the pending one does.
C34_Witness ==
  /\ fn = "shouldRetry" /\ ret.set /\ ~arg.waitAll /\ ~ret.value.value
  /\ Len(arg.pair.statuses) = 2
  /\ arg.pair.statuses[1].state = "pending"
  /\ arg.pair.statuses[2].state = "failure"
  /\ ~shouldRetry([arg.pair EXCEPT
                      !.statuses = <<arg.pair.statuses[2], arg.pair.statuses[1]>>],
                  arg.waitAll, ZeroCounters).value

\* The sum of a sequence of numbers.
RECURSIVE SumOf(_)
SumOf(seq) == IF seq = <<>> THEN 0 ELSE seq[1] + SumOf(Tail(seq))

\* The k-th value the wait sequence of the call gives.
WaitValue(k) ==
  IF options.waitMs.type = "number" THEN options.waitMs.value
  ELSE IF options.waitMs.type = "iterable" THEN options.waitMs.items[k]
  ELSE DefaultWait(k)

\* The deadline of the call: maxTotalMs after it was called.
BudgetEnd ==
  IF IsFinite(options.maxTotalMs) THEN calledAt + options.maxTotalMs
  ELSE Infinity

\* C35: every delay the sleep function is called with is the smaller of the
\* next wait value and the time left until the deadline when the result
\* arrived.  The wait values and minWaitMs of the model are not negative and
\* its clock advances by each delay slept, and so no delay is negative, the
\* delays of a call add up to at most maxTotalMs, and no sleep ends, with
\* the invocation that follows it, after the deadline.
C35_DelaysWithinBudget ==
  (pc \notin {"idle", "init"}) =>
    /\ Len(sleeps) <= Len(resolvedAt)
    /\ \A k \in 1..Len(sleeps) :
         /\ sleeps[k] = Min(WaitValue(k), Minus(BudgetEnd, resolvedAt[k]))
         /\ sleeps[k] >= 0
         /\ resolvedAt[k] + sleeps[k] <= BudgetEnd
         /\ k < Len(resolvedAt) => resolvedAt[k + 1] >= resolvedAt[k] + sleeps[k]
    /\ IsFinite(options.maxTotalMs) => SumOf(sleeps) <= options.maxTotalMs

\* With a budget of 3 and waits of 2, the second sleep was cut to the 1 that
\* was left: the delays add up to the budget.
C35_Witness ==
  /\ options.maxTotalMs = 3 /\ options.waitMs.type = "number"
  /\ options.waitMs.value = 2
  /\ sleeps = <<2, 1>>
  /\ resolvedAt[2] + sleeps[2] = calledAt + 3
  /\ opCalls = 3

\* C37: when a call of fetchCiStatus has resolved, it made as many
\* combined-status requests as check-run requests, one more than it slept;
\* every request was made with the apiArgs of the call; and the pair it
\* resolved with is the pair the last attempt fetched.
C37_RequestsPairUp ==
  fpc = "resolved" =>
    /\ statusCalls = checksCalls
    /\ statusCalls = Len(sleeps) + 1
    /\ sleepsDone = Len(sleeps)
    /\ requestArgs = {apiArgs}
    /\ fresult = [statuses |-> statusData, check_runs |-> checksData]
    /\ UsesRetry(foptions) =>
         /\ Len(opResults) = statusCalls
         /\ fresult = opResults[Len(opResults)]

\* A call that slept once resolved with the pair of its second attempt,
\* which is not the pair of its first.
C37_Witness ==
  /\ fpc = "resolved"
  /\ Len(sleeps) = 1
  /\ statusCalls = 2 /\ checksCalls = 2
  /\ fresult = opResults[2]
  /\ fresult # opResults[1]

FailureClass == {"cancelled", "timed_out", "action_required", "failure", "error"}

\* The exit code of a run whose merged records are list.
ExitCodeFor(list) == stateToExitCode(getState(list))

\* list with record put in before its position i + 1.
InsertAt(list, i, record) ==
  [k \in 1..(Len(list) + 1) |->
     IF k <= i THEN list[k] ELSE IF k = i + 1 THEN record ELSE list[k - 1]]

\* C38: the exit code of the merged records is 1 iff a record has a
\* failure-class state; 2 iff none has and one is pending; 0 iff none is
\* failure-class or pending and one is success or neutral; 3 otherwise; and
\* a list with exit code 1 keeps it when a record is added anywhere.
C38_ExitCodeByClass ==
  (fn = "getState" /\ ret.set) =>
    LET code == stateToExitCode(ret.value)
        S == StatesOf(arg)
        failed == S \cap FailureClass # {}
        pending == "pending" \in S
        passed == S \cap {"success", "neutral"} # {}
    IN /\ (code = 1) <=> failed
       /\ (code = 2) <=> (~failed /\ pending)
       /\ (code = 0) <=> (~failed /\ ~pending /\ passed)
       /\ (code = 3) <=> (~failed /\ ~pending /\ ~passed)
       /\ (code = 1) =>
            \A record \in StateRecords, i \in 0..Len(arg) :
              ExitCodeFor(InsertAt(arg, i, record)) = 1

\* getState was given a cancelled record between a success and a pending
\* one.
C38_Witness ==
  /\ fn = "getState" /\ ret.set
  /\ Len(arg) = 3
  /\ arg[1].state = "success" /\ arg[2].state = "cancelled"
  /\ arg[3].state = "pending"
  /\ stateToExitCode(ret.value) = 1

\* The requests of the call that have neither resolved nor rejected.  (An
\* attempt is started only when both requests of the one before have
\* resolved, so they are requests of the last attempt.)
RequestsInFlight == {r \in {"status", "checks"} : requests[r] = "pending"}

\* Has the promise of fetchCiStatus settled?  (The finally has then run.)
FetchSettled == fpc \in {"resolved", "rejected"}

\* C39 as stated: once the call has settled and its agent, if any, is
\* destroyed, no request of any of its attempts is in flight.
C39_NoRequestInFlight == FetchSettled => RequestsInFlight = {}

\* C39, amended: once the call has settled, every attempt but the last has
\* had both its requests resolve, and a request of the last attempt is in
\* flight only when the call was rejected with the error of the other
\* request of that attempt; the agent, if one was made and the client was
\* constructed, is destroyed all the same.
C39_InFlightOnlyAfterRejectedRequest ==
  FetchSettled =>
    /\ UsesRetry(foptions) /\ statusCalls > 0 =>
         Len(opResults) >= statusCalls - 1
    /\ (fpc = "resolved") => RequestsInFlight = {}
    /\ (ferror \notin {"StatusError", "ChecksError"}) => RequestsInFlight = {}
    /\ ("status" \in RequestsInFlight) =>
         (ferror = "ChecksError" /\ requests.checks = "rejected")
    /\ ("checks" \in RequestsInFlight) =>
         (ferror = "StatusError" /\ requests.status = "rejected")
    /\ (RequestsInFlight # {} /\ agent.created > 0) => agent.destroyed = 1

\* The check-run request of the second attempt rejected while the status
\* request was in flight: the call is rejected and its agent destroyed.
C39_Witness ==
  /\ fpc = "rejected" /\ ferror = "ChecksError"
  /\ RequestsInFlight = {"status"}
  /\ agent.created = 1 /\ agent.destroyed = 1
  /\ statusCalls = 2

\* What the retry predicate says of pair under --wait-all.
WaitAllRetries(pair) == shouldRetry(pair, TRUE, ZeroCounters).value

\* C40: in a run with waitAll (check runs being queued, in_progress or
\* completed), a pair for which the retry predicate says stop is not
\* aggregated to 'pending', and no sleep follows it; so a run that returns
\* exit code 2 returns a pair the predicate wanted to retry, retryAsync
\* having stopped because the time left was below minWaitMs or the wait
\* sequence was done.
C40_WaitAllStopIsNotPending ==
  (foptions.waitAll /\ fpc # "idle") =>
    /\ \A k \in 1..Len(opResults) :
         ~WaitAllRetries(opResults[k]) =>
           /\ PairState(opResults[k]) # "pending"
           /\ stateToExitCode(PairState(opResults[k])) # 2
           /\ ~Continued(k)
    /\ (opc = "returned" /\ exitCode = 2) =>
         /\ pc = "resolved"
         /\ fetched = Last(opResults)
         /\ WaitAllRetries(fetched)
         /\ \/ BudgetExhausted(Remaining(deadline, Last(resolvedAt)),
                                options.minWaitMs)
            \/ waitResult.done

\* --wait-all: after a pending status next to a failed one and a sleep, the
\* second attempt fetched a pair without a waiting entry; the predicate
\* said stop, and the run returned with state 'failure'.
C40_Witness ==
  /\ cargs.waitAll /\ foptions.waitAll
  /\ opc = "returned"
  /\ Len(opResults) = 2 /\ Len(sleeps) = 1
  /\ WaitAllRetries(opResults[1])
  /\ ~WaitAllRetries(opResults[2])
  /\ fetched.check_runs = <<CheckRun("completed", "failure")>>
  /\ state = "failure" /\ exitCode = 1

\* C36: a call of retryAsync with a finite maxTotalMs, minWaitMs > 0 and
\* positive wait values, whose operation always resolves and whose sleeps
\* end after their delay, eventually settles, also when every result is
\* retry-worthy and the wait sequence never ends.
C36_EventuallySettles == <>(pc \in {"resolved", "rejected"})

\* With a budget of 2, endless waits of 1 and retry-worthy results only,
\* the call resolved after its third invocation.
C36_Witness ==
  /\ pc = "resolved"
  /\ options.maxTotalMs = 2 /\ options.minWaitMs = 1
  /\ options.waitMs.type = "number" /\ options.waitMs.value = 1
  /\ opCalls = 3 /\ Len(sleeps) = 2
  /\ \A k \in 1..Len(opResults) : ShouldRetry(opResults[k])

(***************************************************************************)
(* The specifications.                                                     *)
(***************************************************************************)

\* retryAsync, called once with drawn options.
Init == RetryInit /\ PureIdle /\ OrchIdle /\ FetchIdle /\ CliIdle

Next == RetryNext

Spec == Init /\ [][Next]_vars

\* The pure functions of index.js, each applied to a drawn input.
InitPure == PureInit /\ RetryIdle /\ OrchIdle /\ FetchIdle /\ CliIdle

SpecPure == InitPure /\ [][PureNext]_vars

\* retryAsync, called once with a finite maxTotalMs, minWaitMs > 0 and
\* positive waits; operation resolves whenever it is awaited, and so does
\* the sleep.  (A budget below MaxAttempts is used up by fewer than
\* MaxAttempts invocations.)
InitLive ==
  /\ Init
  /\ operation = "function" /\ optionsArg = "object"
  /\ options.maxTotalMs < MaxAttempts
  /\ options.minWaitMs > 0
  /\ \/ options.waitMs.type = "number" /\ options.waitMs.value > 0
     \/ options.waitMs.type = "iterable"

NextLive ==
  \/ Call
  \/ OpResolves
  \/ SleepResolves

SpecLive == InitLive /\ [][NextLive]_vars /\ WF_vars(NextLive)

\* githubCiStatus, called once with drawn options.
InitOrch == OrchInit /\ RetryIdle /\ PureIdle /\ FetchIdle /\ CliIdle

SpecOrch == InitOrch /\ [][OrchNext]_vars

\* fetchCiStatus, called once with drawn options.
InitFetch == FetchInit /\ PureIdle /\ OrchIdle /\ CliIdle

SpecFetch == InitFetch /\ [][FetchNext]_vars

\* hubCiStatusMain, called once with a drawn command line; it calls
\* hubCiStatus, which calls fetchCiStatus.
InitCli == CliInit /\ OrchIdle /\ FetchIdle /\ RetryIdle /\ PureIdle

SpecCli == InitCli /\ [][CliNext]_vars

====
